---- MODULE Spec2Model ----
(***************************************************************************)
(* Model of ImageModalController, the image viewer (lightbox) of the       *)
(* gallery: carousel navigation with a two-phase slide animation, binary   *)
(* zoom, bounded panning by mouse, touch and wheel, keyboard control.      *)
(*                                                                         *)
(* Numbers.  The controller computes with JavaScript doubles.  Lengths are *)
(* kept here as integers counted in quarter pixels (Px(1) = 4) and zoom    *)
(* factors in tenths (2.5 is 25), which makes every product and quotient   *)
(* of the pan arithmetic exact for the dimensions used.                    *)
(***************************************************************************)
EXTENDS Integers, Sequences, FiniteSets, TLC

\* ------------------------------------------------------------------ units
\* Pixels to quarter pixels.
Px(n) == n * 4

Abs(n) == IF n < 0 THEN -n ELSE n
Max(a, b) == IF a >= b THEN a ELSE b
Min(a, b) == IF a <= b THEN a ELSE b

\* -------------------------------------------------------------- constants
ZOOM_MIN == 10
ZOOM_MAX == 25
ZOOM_DEFAULT == 10
SCROLL_SPEED == 15
SWIPE_MIN_DISTANCE == 50
SWIPE_MAX_DURATION == 500
TABLET_MIN_WIDTH == 744
DESKTOP_MIN_WIDTH == 1024
TABLET_LAYOUT_MIN_WIDTH == 768
MOUSE_MOVE_THRESHOLD == 5
TOUCH_MOVE_THRESHOLD == 3
TAP_MAX_DURATION == 300

ANIMATION_CLASSES ==
    { "modal__content--out-left", "modal__content--out-right",
      "modal__content--in-left", "modal__content--in-right" }

KEY_CODES == { "Escape", "ArrowLeft", "ArrowRight" }

DOM_IDS ==
    { "imageModal", "modalImage", "modalCaption", "modalClose",
      "modalArrowLeft", "modalArrowRight", "modalZoom", "modalZoomIcon" }

ZOOM_ICON_IN == "icons/zoom-in.svg"
ZOOM_ICON_OUT == "icons/zoom-out.svg"
ZOOM_ICON_SQUARE_IN == "icons/zoom-in-square.svg"
ZOOM_ICON_SQUARE_OUT == "icons/zoom-out-square.svg"

\* ----------------------------------------------------------------- bounds
\* Navigations counted since the last open (the count is only a record of
\* the history; changeImage is refused by the model beyond it).
MaxNav == 3
\* Pending flag-reset timers of the mouse-up handler.
MaxTimers == 1
\* Pages left through the language switcher in one behaviour.
MaxVisits == 2

\* ----------------------------------------------------------- environment
\* The page: base URL, the artwork records a controller can be built for,
\* the documents (sets of element ids present), the viewports.
BaseUrl == "/base/"

PhotoC == [src |-> "c.jpg", srcOriginal |-> "c_full.jpg", alt |-> "C"]
PhotoB == [src |-> "b.jpg", srcOriginal |-> "", alt |-> "B"]

ImageDataSet ==
    { [src |-> "a.jpg", srcOriginal |-> "a_full.jpg", alt |-> "A",
       additionalPhotos |-> << >>],
      [src |-> "a.jpg", srcOriginal |-> "", alt |-> "A",
       additionalPhotos |-> << PhotoC >>] }

\* The artwork records of the navigation specification.
NavImageDataSet ==
    ImageDataSet \cup
    { [src |-> "a.jpg", srcOriginal |-> "a_full.jpg", alt |-> "A",
       additionalPhotos |-> << PhotoC, PhotoB >>] }

\* Intrinsic pixel size of the resource behind a URL.
NaturalSize(url) ==
    CASE url \in {"/base/a.jpg", "/base/a_full.jpg"} -> [w |-> 40, h |-> 20]
      [] url \in {"/base/b.jpg"} -> [w |-> 40, h |-> 20]
      [] url \in {"/base/c.jpg", "/base/c_full.jpg"} -> [w |-> 8, h |-> 8]
      [] url \in {"/base/wide.jpg"} -> [w |-> 2000, h |-> 1000]
      [] url \in {"/base/tall.jpg"} -> [w |-> 20, h |-> 40]
      [] OTHER -> [w |-> 0, h |-> 0]

\* Thumbnails of the page that can be clicked: src and data-src-original.
ClickedImgs ==
    { [src |-> "/base/a.jpg", srcOriginal |-> "/base/a_full.jpg"],
      [src |-> "/base/c.jpg", srcOriginal |-> "/base/c_full.jpg"],
      [src |-> "/base/b.jpg", srcOriginal |-> ""],
      [src |-> "/base/other.jpg", srcOriginal |-> ""] }

Documents ==
    { DOM_IDS, DOM_IDS \ {"modalCaption"}, DOM_IDS \ {"modalImage"} }

Viewports == { [w |-> 40, h |-> 40] }

\* Pointer positions (pixels) and wheel deltas (pixels) the user produces;
\* a mouse press or a touch starts at one of StartPoints.
Points == { [x |-> 0, y |-> 0], [x |-> 80, y |-> 10] }
StartPoints == { [x |-> 0, y |-> 0] }
WheelDeltas == { [x |-> 40, y |-> 40], [x |-> -40, y |-> -40] }
\* Durations of a touch gesture, in milliseconds.
Durations == { 0, 200, 300, 500, 600 }
\* The pointing device of a session.
Pointers == { "mouse", "touch" }
Keys == KEY_CODES \cup { "Enter" }

\* Layout box (pixels, before the zoom transform) of the modal image while
\* its resource has no intrinsic size yet: the browser's choice.
UnloadedBoxes == { [w |-> 0, h |-> 0], [w |-> 16, h |-> 16] }

\* ------------------------------------------------------------------ state
VARIABLES
    \* construction parameters, the page, the pointing device
    imageData, elements, viewport, pointer,
    \* carousel state
    currentImageIndex, allImages, isAnimating, imagePreloadCache,
    \* zoom and pan state
    zoomScale, panX, panY, dragState,
    \* mouse tracking
    mouseDownX, mouseDownY, isMouseDown, canToggleZoomOnClick,
    \* touch tracking
    touchStartX, touchStartY, touchStartTime, touchLastX, touchLastY,
    isTouchActive,
    \* the DOM the controller writes
    modalDisplay, bodyOverflow, imageSrc, captionText, imageClasses,
    animListeners, captionDisplay, arrowDisplay, modalZoomed, cursor,
    transform, zoomIconSrc,
    \* the browser: image decoding, pending timeouts
    imageLoaded, timers,
    \* the language switcher: the page it is on (location.pathname and the
    \* pathname of the <base> tag, << >> without one), its own fields, and
    \* the pages it has left (history, never read by an action)
    page, switcher, visited,
    \* history of navigation since the last open (never read by an action
    \* of the controller)
    navStart, navDirs, navDone, navClean,
    \* history: the last call made on the viewer, the mouse gesture under
    \* way (never read by an action of the controller)
    lastCall, gesture

langVars == << page, switcher, visited >>
cfgVars == << imageData, elements, viewport, pointer, langVars >>
carVars == << currentImageIndex, allImages, isAnimating, imagePreloadCache >>
zoomVars == << zoomScale, panX, panY >>
mouseVars == << mouseDownX, mouseDownY, isMouseDown >>
touchVars ==
    << touchStartX, touchStartY, touchStartTime, touchLastX, touchLastY,
       isTouchActive >>
imgVars == << imageSrc, captionText, imageLoaded >>
animVars == << imageClasses, animListeners >>
overlayVars == << modalDisplay, bodyOverflow >>
uiVars == << captionDisplay, arrowDisplay, modalZoomed, zoomIconSrc >>
envVars == << timers >>
navVars == << navStart, navDirs, navDone, navClean >>
histVars == << navVars, lastCall, gesture >>

vars ==
    << cfgVars, carVars, zoomVars, dragState, mouseVars,
       canToggleZoomOnClick, touchVars, imgVars, animVars, overlayVars,
       uiVars, cursor, transform, envVars, histVars >>

\* ------------------------------------------------- language switcher
\* Paths are sequences of pieces: "/" and the names between slashes.  No
\* name contains "/", or begins with another name, so a piece-wise prefix,
\* search or replacement is the character-wise one.
REPO == "paintings-artist-gallery-porfolio"
BASE_URL_PATTERNS == { << "/", REPO, "/" >> }
DEFAULT_LANGUAGE == "en"
LANGUAGES == { "en", "es" }

startsWith(str, prefix) ==
    Len(prefix) <= Len(str) /\ SubSeq(str, 1, Len(prefix)) = prefix

endsWith(str, suffix) ==
    /\ Len(suffix) <= Len(str)
    /\ SubSeq(str, Len(str) - Len(suffix) + 1, Len(str)) = suffix

\* String.prototype.indexOf, from 1; 0 when there is no occurrence.
indexOf(str, pattern) ==
    LET at == { i \in 1 .. (Len(str) - Len(pattern) + 1) :
                  SubSeq(str, i, i + Len(pattern) - 1) = pattern }
    IN  IF at = {} THEN 0 ELSE CHOOSE i \in at : \A j \in at : i <= j

includes(str, pattern) == indexOf(str, pattern) # 0

\* String.prototype.replace with a string pattern: the first occurrence.
replace(str, pattern, replacement) ==
    LET i == indexOf(str, pattern)
    IN  IF i = 0 THEN str
        ELSE SubSeq(str, 1, i - 1) \o replacement
               \o SubSeq(str, i + Len(pattern), Len(str))

getBaseUrl(baseTag, currentPath) ==
    IF baseTag # << >> THEN baseTag
    ELSE IF \E pattern \in BASE_URL_PATTERNS : includes(currentPath, pattern)
    THEN CHOOSE pattern \in BASE_URL_PATTERNS : includes(currentPath, pattern)
    ELSE << "/" >>

normalizePath(path, baseUrl) ==
    LET relativePath ==
            IF baseUrl # << "/" >> /\ startsWith(path, baseUrl)
            THEN replace(path, baseUrl, << "/" >>)
            ELSE path
    IN  IF relativePath = << >> \/ relativePath = baseUrl
           \/ relativePath = << "/" >>
        THEN << "/" >>
        ELSE relativePath

constructFullPath(relativePath, baseUrl) ==
    IF baseUrl = << "/" >> THEN relativePath
    ELSE LET relative == IF startsWith(relativePath, << "/" >>)
                         THEN Tail(relativePath)
                         ELSE relativePath
             base == IF endsWith(baseUrl, << "/" >>) THEN baseUrl
                     ELSE baseUrl \o << "/" >>
         IN  base \o relative

\* detectLanguage reads window.location.pathname: the parameter.
detectLanguage(pathname) ==
    IF includes(pathname, << "/", "es", "/" >>) THEN "es"
    ELSE DEFAULT_LANGUAGE

getLanguagePathPrefix(lang) ==
    IF lang = "es" THEN << "/", "es" >> ELSE << >>

\* convertPath on the page at pathname.
convertPath(pathname, currentPath, targetLang, baseUrl) ==
    LET relativePath == normalizePath(currentPath, baseUrl)
        currentLang == detectLanguage(pathname)
        targetPrefix == getLanguagePathPrefix(targetLang)
        currentPrefix == getLanguagePathPrefix(currentLang)
        stripped ==
            IF currentPrefix # << >> /\ startsWith(relativePath, currentPrefix)
            THEN replace(relativePath, currentPrefix, << >>)
            ELSE relativePath
        newRelativePath ==
            IF targetPrefix = << >> THEN stripped
            ELSE IF startsWith(stripped, << "/", "artwork", "/" >>)
            THEN targetPrefix \o << "/", "artwork", "/" >>
                   \o replace(stripped, << "/", "artwork", "/" >>, << >>)
            ELSE IF stripped = << "/" >> THEN targetPrefix \o << "/" >>
            ELSE targetPrefix \o stripped
    IN  IF currentLang = targetLang THEN currentPath
        ELSE constructFullPath(newRelativePath, baseUrl)

\* ------------------------------------------------------- pure operations
Has(id) == id \in elements

IsZoomed(zoom) == zoom > ZOOM_MIN

isZoomedIn == IsZoomed(zoomScale)

buildImageUrl(path) == BaseUrl \o path

\* a || b on strings: the empty (or absent) string is falsy.
OrElse(a, b) == IF a # "" THEN a ELSE b

\* Faulty variant of the carousel entry: no fallback of the full-resolution
\* URL to the display URL.
CarouselImageNoFallback(photo) ==
    [ src |-> buildImageUrl(photo.src),
      srcOriginal |-> buildImageUrl(photo.srcOriginal),
      alt |-> photo.alt ]

CarouselImage(photo) ==
    [ src |-> buildImageUrl(photo.src),
      srcOriginal |-> buildImageUrl(OrElse(photo.srcOriginal, photo.src)),
      alt |-> photo.alt ]

collectAllImages(data) ==
    << CarouselImage(data) >> \o
    [ i \in 1 .. Len(data.additionalPhotos) |->
        CarouselImage(data.additionalPhotos[i]) ]

\* Array.findIndex over the carousel, 0-based, -1 when nothing matches.
RECURSIVE FindFrom(_, _, _)
FindFrom(images, clickedSrc, i) ==
    IF i >= Len(images) THEN -1
    ELSE IF images[i + 1].src = clickedSrc
            \/ images[i + 1].srcOriginal = clickedSrc
         THEN i
         ELSE FindFrom(images, clickedSrc, i + 1)

\* Faulty variant of findImageIndex: matches display URLs only.
findImageIndexSrcOnly(images, clickedSrc) ==
    LET hits == { i \in 0 .. Len(images) - 1 : images[i + 1].src = clickedSrc }
    IN  IF hits = {} THEN -1
        ELSE CHOOSE i \in hits : \A j \in hits : i <= j

findImageIndex(images, clickedSrc) == FindFrom(images, clickedSrc, 0)

preloadCarouselImages(cache, images) ==
    cache \cup ({ images[i].srcOriginal : i \in 1 .. Len(images) } \ { "" })

getAnimationClasses(direction) ==
    [ outClass |-> IF direction > 0 THEN "modal__content--out-left"
                   ELSE "modal__content--out-right",
      inClass |-> IF direction > 0 THEN "modal__content--in-right"
                  ELSE "modal__content--in-left" ]

\* Faulty variants of updateImageIndex: no wraparound; stopping at the ends.
updateImageIndexNoWrap(index, direction, length) == index + direction

updateImageIndexStopAtEnd(index, direction, length) ==
    Max(0, Min(length - 1, index + direction))

updateImageIndex(index, direction, length) ==
    LET next == index + direction IN
    IF next >= length THEN 0
    ELSE IF next < 0 THEN length - 1
    ELSE next

NullBounds == [ null |-> TRUE, maxX |-> 0, maxY |-> 0 ]

\* Faulty variant of calculateBoundsFromSize: the whole excess, not half.
calculateBoundsFromSizeFull(baseWidth, baseHeight, viewportWidth, viewportHeight, zoom) ==
    [ null |-> FALSE,
      maxX |-> Max(0, (baseWidth * zoom) \div 10 - viewportWidth),
      maxY |-> Max(0, (baseHeight * zoom) \div 10 - viewportHeight) ]

calculateBoundsFromSize(baseWidth, baseHeight, viewportWidth, viewportHeight, zoom) ==
    LET zoomedWidth == (baseWidth * zoom) \div 10
        zoomedHeight == (baseHeight * zoom) \div 10
        excessWidth == Max(0, zoomedWidth - viewportWidth)
        excessHeight == Max(0, zoomedHeight - viewportHeight)
    IN  IF excessWidth = 0 /\ excessHeight = 0
        THEN [ null |-> FALSE, maxX |-> 0, maxY |-> 0 ]
        ELSE [ null |-> FALSE,
               maxX |-> IF excessWidth > 0 THEN excessWidth \div 2 ELSE 0,
               maxY |-> IF excessHeight > 0 THEN excessHeight \div 2 ELSE 0 ]

\* Faulty variant of DisplayedBox: 90% of the viewport height from 768 px.
DisplayedBoxNoTablet(natural, vp) ==
    LET viewportWidth == Px(vp.w)
        viewportHeight == Px(vp.h)
        maxHeight ==
            IF vp.w >= TABLET_LAYOUT_MIN_WIDTH THEN (viewportHeight * 9) \div 10
            ELSE viewportHeight
    IN  IF natural.w * maxHeight > viewportWidth * natural.h
        THEN [ w |-> viewportWidth,
               h |-> (viewportWidth * natural.h) \div natural.w ]
        ELSE [ w |-> (maxHeight * natural.w) \div natural.h,
               h |-> maxHeight ]

\* The displayed (pre-zoom) box derived from the intrinsic size: the
\* viewport-relative max-height policy and containment in the width.
DisplayedBox(natural, vp) ==
    LET viewportWidth == Px(vp.w)
        viewportHeight == Px(vp.h)
        maxHeight ==
            IF vp.w >= DESKTOP_MIN_WIDTH THEN (viewportHeight * 9) \div 10
            ELSE IF vp.w >= TABLET_LAYOUT_MIN_WIDTH
                 THEN (viewportHeight * 8) \div 10
                 ELSE viewportHeight
    IN  \* imageAspect > maxWidthAspect, cross-multiplied
        IF natural.w * maxHeight > viewportWidth * natural.h
        THEN [ w |-> viewportWidth,
               h |-> (viewportWidth * natural.h) \div natural.w ]
        ELSE [ w |-> (maxHeight * natural.w) \div natural.h,
               h |-> maxHeight ]

\* Faulty variant of calculatePanBounds: the intrinsic size taken as the
\* displayed box.
calculatePanBoundsNatural(hasImage, zoom, vp, natural, rect) ==
    IF ~hasImage \/ ~IsZoomed(zoom) THEN NullBounds
    ELSE IF natural.w <= 0 \/ natural.h <= 0
    THEN LET baseWidth == (rect.w * 10) \div zoom
             baseHeight == (rect.h * 10) \div zoom
         IN  IF baseWidth <= 0 \/ baseHeight <= 0 THEN NullBounds
             ELSE calculateBoundsFromSize(baseWidth, baseHeight, Px(vp.w),
                                          Px(vp.h), zoom)
    ELSE calculateBoundsFromSize(Px(natural.w), Px(natural.h), Px(vp.w),
                                 Px(vp.h), zoom)

\* natural: intrinsic size (0 x 0 while unavailable); rect: the rendered
\* bounding box, in quarter pixels.
calculatePanBounds(hasImage, zoom, vp, natural, rect) ==
    IF ~hasImage \/ ~IsZoomed(zoom) THEN NullBounds
    ELSE IF natural.w <= 0 \/ natural.h <= 0
    THEN LET baseWidth == (rect.w * 10) \div zoom
             baseHeight == (rect.h * 10) \div zoom
         IN  IF baseWidth <= 0 \/ baseHeight <= 0 THEN NullBounds
             ELSE calculateBoundsFromSize(baseWidth, baseHeight, Px(vp.w),
                                          Px(vp.h), zoom)
    ELSE LET box == DisplayedBox(natural, vp)
         IN  calculateBoundsFromSize(box.w, box.h, Px(vp.w), Px(vp.h), zoom)

Clamp(bound, v) == Max(-bound, Min(bound, v))

\* Faulty variant of constrainPan: without bounds the requested pan is kept.
constrainPanKeepOnNull(hasImage, zoom, vp, natural, rect, x, y) ==
    IF ~hasImage \/ ~IsZoomed(zoom) THEN [ x |-> 0, y |-> 0 ]
    ELSE LET bounds == calculatePanBounds(hasImage, zoom, vp, natural, rect)
         IN  IF bounds.null THEN [ x |-> x, y |-> y ]
             ELSE [ x |-> Clamp(bounds.maxX, x), y |-> Clamp(bounds.maxY, y) ]

constrainPan(hasImage, zoom, vp, natural, rect, x, y) ==
    IF ~hasImage \/ ~IsZoomed(zoom) THEN [ x |-> 0, y |-> 0 ]
    ELSE LET bounds == calculatePanBounds(hasImage, zoom, vp, natural, rect)
         IN  IF bounds.null THEN [ x |-> 0, y |-> 0 ]
             ELSE [ x |-> Clamp(bounds.maxX, x), y |-> Clamp(bounds.maxY, y) ]

\* Faulty variant of the zoom toggle: zooming in from exactly 1.0 only.
toggleZoomScaleExact(zoom) == IF zoom = ZOOM_MIN THEN ZOOM_MAX ELSE ZOOM_MIN

\* Faulty variant of the zoom toggle: zooming in by steps of 0.5.
toggleZoomScaleStepwise(zoom) ==
    IF zoom < ZOOM_MAX THEN zoom + 5 ELSE ZOOM_MIN

toggleZoomScale(zoom) == IF zoom <= ZOOM_MIN THEN ZOOM_MAX ELSE ZOOM_MIN

\* Faulty variant of toggleZoom: the pan is kept.
toggleZoomKeepPan(hasImage, zoom, vp, natural, rect, x, y) ==
    LET z == toggleZoomScale(zoom)
        p == IF IsZoomed(z)
             THEN constrainPan(hasImage, z, vp, natural, rect, x, y)
             ELSE [ x |-> x, y |-> y ]
    IN  [ zoom |-> z, x |-> p.x, y |-> p.y ]


\* The zoom and pan toggleZoom leaves: the pan is reset, then constrained
\* when the new state is zoomed in.
toggleZoom(hasImage, zoom, vp, natural, rect, x, y) ==
    LET z == toggleZoomScale(zoom)
        p == IF IsZoomed(z)
             THEN constrainPan(hasImage, z, vp, natural, rect, 0, 0)
             ELSE [ x |-> 0, y |-> 0 ]
    IN  [ zoom |-> z, x |-> p.x, y |-> p.y ]

\* Faulty variant of handleWheel: the deltas are added as they are.
handleWheelUnscaled(hasImage, zoom, vp, natural, rect, x, y, deltaX, deltaY) ==
    IF ~IsZoomed(zoom) THEN [ x |-> x, y |-> y ]
    ELSE constrainPan(hasImage, zoom, vp, natural, rect, x + deltaX, y + deltaY)

\* The pan handleWheel leaves.
handleWheel(hasImage, zoom, vp, natural, rect, x, y, deltaX, deltaY) ==
    IF ~IsZoomed(zoom) THEN [ x |-> x, y |-> y ]
    ELSE constrainPan(hasImage, zoom, vp, natural, rect,
                      x + (deltaX * SCROLL_SPEED) \div 10,
                      y + (deltaY * SCROLL_SPEED) \div 10)

\* Faulty variant of startDrag: the reference is the pointer position, the
\* pan at the start of the drag is not taken off.
startDragNoOffset(drag, zoom, x, y, clientX, clientY) ==
    IF ~IsZoomed(zoom) THEN drag
    ELSE [ isDragging |-> TRUE, hasMoved |-> FALSE,
           startX |-> clientX, startY |-> clientY ]

startDrag(drag, zoom, x, y, clientX, clientY) ==
    IF ~IsZoomed(zoom) THEN drag
    ELSE [ isDragging |-> TRUE, hasMoved |-> FALSE,
           startX |-> clientX - x, startY |-> clientY - y ]

\* The drag state and pan onDrag leaves.
onDrag(hasImage, drag, zoom, vp, natural, rect, x, y, clientX, clientY) ==
    IF ~drag.isDragging \/ ~IsZoomed(zoom)
    THEN [ drag |-> drag, x |-> x, y |-> y ]
    ELSE LET deltaX == Abs(clientX - (drag.startX + x))
             deltaY == Abs(clientY - (drag.startY + y))
             moved == deltaX > Px(MOUSE_MOVE_THRESHOLD)
                      \/ deltaY > Px(MOUSE_MOVE_THRESHOLD)
             p == constrainPan(hasImage, zoom, vp, natural, rect,
                               clientX - drag.startX, clientY - drag.startY)
         IN  [ drag |-> [ drag EXCEPT !.hasMoved = moved \/ @ ],
               x |-> p.x, y |-> p.y ]

endDrag(drag) == [ drag EXCEPT !.isDragging = FALSE, !.hasMoved = FALSE ]

wasActualDrag(drag) == drag.isDragging /\ drag.hasMoved

buildCursorValue(path, fallback) ==
    "url(\"" \o buildImageUrl(path) \o "\") 17 17, " \o fallback

cursorZoomInValue == buildCursorValue(ZOOM_ICON_SQUARE_IN, "zoom-in")
cursorZoomOutValue == buildCursorValue(ZOOM_ICON_SQUARE_OUT, "zoom-out")

CursorFor(zoom, dragging) ==
    IF IsZoomed(zoom)
    THEN IF dragging THEN "grabbing" ELSE cursorZoomOutValue
    ELSE cursorZoomInValue

\* Faulty variant of changeImage's early return: no re-entrancy lock.
changeImageRejectedNoLock(length, animating, hasImage) ==
    length <= 1 \/ ~hasImage

\* changeImage's early return.
changeImageRejected(length, animating, hasImage) ==
    length <= 1 \/ animating \/ ~hasImage

\* ------------------------------------------------------- state-dependent
\* Faulty variant of ensureElementsReady: the caption is not required.
ensureElementsReadyNoCaption == Has("imageModal") /\ Has("modalImage")

ensureElementsReady ==
    Has("imageModal") /\ Has("modalImage") /\ Has("modalCaption")

shouldKeepArrowsVisible == viewport.w >= TABLET_MIN_WIDTH

\* Intrinsic size of the displayed image: 0 x 0 until it has loaded.
NaturalDims ==
    IF imageLoaded THEN NaturalSize(imageSrc) ELSE [ w |-> 0, h |-> 0 ]

\* getBoundingClientRect of the modal image: its layout box under the zoom
\* transform, in quarter pixels.  Without an intrinsic size the layout box
\* is the browser's choice.
BoundingRect(box, zoom) ==
    [ w |-> (box.w * zoom) \div 10, h |-> (box.h * zoom) \div 10 ]

BoundingRects(zoom) ==
    IF NaturalDims.w > 0 /\ NaturalDims.h > 0
    THEN { BoundingRect(DisplayedBox(NaturalDims, viewport), zoom) }
    ELSE { BoundingRect([ w |-> Px(b.w), h |-> Px(b.h) ], zoom) :
             b \in UnloadedBoxes }

Visible == modalDisplay = "block"

\* ---------------------------------------------------------- initial state
NoTransform == [ zoom |-> 0, panX |-> 0, panY |-> 0 ]

InitController ==
    /\ currentImageIndex = 0
    /\ allImages = << >>
    /\ isAnimating = FALSE
    /\ imagePreloadCache = {}
    /\ zoomScale = ZOOM_DEFAULT
    /\ panX = 0
    /\ panY = 0
    /\ dragState =
         [ isDragging |-> FALSE, startX |-> 0, startY |-> 0,
           hasMoved |-> FALSE ]
    /\ mouseDownX = 0
    /\ mouseDownY = 0
    /\ isMouseDown = FALSE
    /\ canToggleZoomOnClick = FALSE
    /\ touchStartX = 0
    /\ touchStartY = 0
    /\ touchStartTime = 0
    /\ touchLastX = 0
    /\ touchLastY = 0
    /\ isTouchActive = FALSE

\* The language switcher of the page the viewer is on: constructed on the
\* root page of a site without <base> tag.
NewSwitcher(baseTag, pathname) ==
    [ baseUrl |-> getBaseUrl(baseTag, pathname),
      open |-> FALSE,
      currentLangText |-> IF detectLanguage(pathname) = "es" THEN "ES"
                          ELSE "EN" ]

InitLanguage ==
    /\ page = [ pathname |-> << "/" >>, baseTag |-> << >> ]
    /\ switcher = NewSwitcher(page.baseTag, page.pathname)
    /\ visited = << >>

InitPage ==
    /\ modalDisplay = ""
    /\ bodyOverflow = ""
    /\ imageSrc = ""
    /\ captionText = ""
    /\ imageClasses = {}
    /\ animListeners = << >>
    /\ captionDisplay = ""
    /\ arrowDisplay = ""
    /\ modalZoomed = FALSE
    /\ cursor = IF Has("modalImage") THEN cursorZoomInValue ELSE ""
    /\ transform = NoTransform
    /\ zoomIconSrc = ""
    /\ imageLoaded = FALSE
    /\ timers = 0

NoCall ==
    [ op |-> "", src |-> "", key |-> "", dir |-> 0, x |-> 0, y |-> 0,
      t |-> 0,
      zoom |-> 0, panX |-> 0, panY |-> 0 ]

NoGesture ==
    [ phase |-> "idle", x |-> 0, y |-> 0, downX |-> 0, downY |-> 0,
      moved |-> FALSE, far |-> FALSE, zoom0 |-> 0, panX0 |-> 0, panY0 |-> 0 ]

InitHistory ==
    /\ navStart = 0
    /\ navDirs = << >>
    /\ navDone = 0
    /\ navClean = FALSE
    /\ lastCall = NoCall
    /\ gesture = NoGesture

Init ==
    /\ imageData \in ImageDataSet
    /\ elements \in Documents
    /\ viewport \in Viewports
    /\ pointer \in Pointers
    /\ InitController
    /\ InitPage
    /\ InitLanguage
    /\ InitHistory

\* ---------------------------------------------------------- DOM updates
progVars ==
    << cfgVars, carVars, zoomVars, dragState, mouseVars,
       canToggleZoomOnClick, touchVars, imgVars, animVars, overlayVars,
       uiVars, cursor, transform, envVars >>

applyTransform(zoom, x, y) ==
    transform' = IF Has("modalImage")
                 THEN [ zoom |-> zoom, panX |-> x, panY |-> y ]
                 ELSE transform

updateZoomIcon(zoom) ==
    zoomIconSrc' = IF Has("modalZoomIcon")
                   THEN IF IsZoomed(zoom) THEN buildImageUrl(ZOOM_ICON_OUT)
                        ELSE buildImageUrl(ZOOM_ICON_IN)
                   ELSE zoomIconSrc

updateCursor(zoom, dragging) ==
    cursor' = IF Has("modalImage") THEN CursorFor(zoom, dragging) ELSE cursor

\* Faulty variant of updateUIElementsVisibility: the caption is left as is.
updateUIElementsVisibilityKeepCaption(zoom) ==
    LET isZoomed == IsZoomed(zoom)
        arrowValue == IF ~isZoomed \/ shouldKeepArrowsVisible THEN "block"
                      ELSE "none"
    IN  /\ UNCHANGED captionDisplay
        /\ arrowDisplay' = IF Has("modalArrowLeft") THEN arrowValue
                           ELSE arrowDisplay
        /\ modalZoomed' = IF Has("imageModal") THEN isZoomed ELSE modalZoomed

\* arrowDisplay stands for both arrows, present together in every document.
updateUIElementsVisibility(zoom) ==
    LET isZoomed == IsZoomed(zoom)
        displayValue == IF isZoomed THEN "none" ELSE "block"
        arrowValue == IF ~isZoomed \/ shouldKeepArrowsVisible THEN "block"
                      ELSE displayValue
    IN  /\ captionDisplay' = IF Has("modalCaption") THEN displayValue
                             ELSE captionDisplay
        /\ arrowDisplay' = IF Has("modalArrowLeft") THEN arrowValue
                           ELSE arrowDisplay
        /\ modalZoomed' = IF Has("imageModal") THEN isZoomed ELSE modalZoomed

\* The four refreshes that end resetZoom and toggleZoom.
RefreshZoom(zoom, x, y) ==
    /\ applyTransform(zoom, x, y)
    /\ updateZoomIcon(zoom)
    /\ updateCursor(zoom, dragState.isDragging)
    /\ updateUIElementsVisibility(zoom)

\* Faulty variant of resetZoom: the pan is kept.
resetZoomKeepPan ==
    /\ zoomScale' = ZOOM_DEFAULT
    /\ UNCHANGED << panX, panY >>
    /\ RefreshZoom(ZOOM_DEFAULT, panX, panY)

resetZoom ==
    /\ zoomScale' = ZOOM_DEFAULT
    /\ panX' = 0
    /\ panY' = 0
    /\ RefreshZoom(ZOOM_DEFAULT, 0, 0)

\* toggleZoom as a step on zoomVars, transform, cursor and uiVars.
DoToggleZoom ==
    \E rect \in BoundingRects(toggleZoomScale(zoomScale)) :
        LET t == toggleZoom(Has("modalImage"), zoomScale, viewport,
                            NaturalDims, rect, panX, panY)
        IN  /\ zoomScale' = t.zoom
            /\ panX' = t.x
            /\ panY' = t.y
            /\ RefreshZoom(t.zoom, t.x, t.y)

\* showCurrentImage for a given index and carousel.
showCurrentImage(index, images) ==
    IF ~ensureElementsReady \/ Len(images) = 0 THEN UNCHANGED imgVars
    ELSE LET currentImage == images[index + 1]
         IN  /\ imageSrc' = currentImage.srcOriginal
             /\ captionText' = currentImage.alt
             /\ imageLoaded' = (imageLoaded
                                /\ imageSrc = currentImage.srcOriginal)

\* --------------------------------------------- open, navigate, close
openModalIndex(images, img) ==
    Max(0, findImageIndex(images, OrElse(img.srcOriginal, img.src)))

OpenModalStep(img) ==
    IF ~ensureElementsReady THEN UNCHANGED progVars
    ELSE LET images == collectAllImages(imageData)
         IN  /\ allImages' = images
             /\ imagePreloadCache' =
                  preloadCarouselImages(imagePreloadCache, images)
             /\ currentImageIndex' = openModalIndex(images, img)
             /\ showCurrentImage(openModalIndex(images, img), images)
             /\ modalDisplay' = IF Has("imageModal") THEN "block"
                                ELSE modalDisplay
             /\ bodyOverflow' = "hidden"
             /\ resetZoom
             /\ UNCHANGED << cfgVars, isAnimating, dragState, mouseVars,
                             canToggleZoomOnClick, touchVars, animVars,
                             envVars >>

startSlideOutAnimation(outClass, inClass, direction) ==
    /\ imageClasses' = (imageClasses \ ANIMATION_CLASSES) \cup { outClass }
    /\ animListeners' =
         Append(animListeners,
                [ phase |-> "out", outClass |-> outClass,
                  inClass |-> inClass, direction |-> direction ])

ChangeImageAccepted ==
    ~changeImageRejected(Len(allImages), isAnimating, Has("modalImage"))

\* changeImage as a step on isAnimating and animVars.
changeImage(direction) ==
    IF ~ChangeImageAccepted THEN UNCHANGED << isAnimating, animVars >>
    ELSE /\ isAnimating' = TRUE
         /\ startSlideOutAnimation(getAnimationClasses(direction).outClass,
                                   getAnimationClasses(direction).inClass,
                                   direction)

\* Faulty variant of closeModal: background scrolling is not restored.
closeModalKeepScroll ==
    IF ~Has("imageModal") THEN UNCHANGED overlayVars
    ELSE /\ modalDisplay' = "none"
         /\ UNCHANGED bodyOverflow

\* closeModal as a step on overlayVars.
closeModal ==
    IF ~Has("imageModal") THEN UNCHANGED overlayVars
    ELSE /\ modalDisplay' = "none"
         /\ bodyOverflow' = "auto"

ChangeImageStep(direction) ==
    /\ changeImage(direction)
    /\ UNCHANGED << cfgVars, currentImageIndex, allImages, imagePreloadCache,
                    zoomVars, dragState, mouseVars, canToggleZoomOnClick,
                    touchVars, imgVars, overlayVars, uiVars, cursor,
                    transform, envVars >>

CloseModalStep ==
    /\ closeModal
    /\ UNCHANGED << cfgVars, carVars, zoomVars, dragState, mouseVars,
                    canToggleZoomOnClick, touchVars, imgVars, animVars,
                    uiVars, cursor, transform, envVars >>

\* ------------------------------------------------------ animation end
RECURSIVE RemoveFirst(_, _)
RemoveFirst(seq, item) ==
    IF seq = << >> THEN << >>
    ELSE IF Head(seq) = item THEN Tail(seq)
    ELSE << Head(seq) >> \o RemoveFirst(Tail(seq), item)

\* The two listeners of startSlideOutAnimation, on the part of the state
\* they touch: st = [index, src, caption, loaded, classes, listeners,
\* animating, advanced].
\* Faulty variant of the slide-out listener: it does not remove itself.
onSlideOutEndKeepListener(st, l) ==
    LET index == updateImageIndex(st.index, l.direction, Len(allImages))
        shown == ensureElementsReady /\ Len(allImages) # 0
        image == allImages[index + 1]
    IN  [ st EXCEPT
            !.index = index,
            !.src = IF shown THEN image.srcOriginal ELSE @,
            !.caption = IF shown THEN image.alt ELSE @,
            !.loaded = IF shown THEN @ /\ st.src = image.srcOriginal ELSE @,
            !.classes = (@ \ { l.outClass }) \cup { l.inClass },
            !.listeners = Append(@, [ l EXCEPT !.phase = "in" ]),
            !.advanced = @ + 1 ]

onSlideOutEnd(st, l) ==
    LET index == updateImageIndex(st.index, l.direction, Len(allImages))
        shown == ensureElementsReady /\ Len(allImages) # 0
        image == allImages[index + 1]
    IN  IF shown /\ index + 1 \notin 1 .. Len(allImages)
        THEN \* reading a field of undefined throws: the listener stops
             [ st EXCEPT !.index = index,
                         !.listeners = RemoveFirst(@, l),
                         !.advanced = @ + 1 ]
        ELSE [ st EXCEPT
                 !.index = index,
                 !.src = IF shown THEN image.srcOriginal ELSE @,
                 !.caption = IF shown THEN image.alt ELSE @,
                 !.loaded = IF shown THEN @ /\ st.src = image.srcOriginal
                            ELSE @,
                 !.classes = (@ \ { l.outClass }) \cup { l.inClass },
                 !.listeners =
                     Append(RemoveFirst(@, l), [ l EXCEPT !.phase = "in" ]),
                 !.advanced = @ + 1 ]

\* Faulty variant of the slide-in listener: the lock is never released.
onSlideInEndKeepLock(st, l) ==
    [ st EXCEPT
        !.classes = @ \ { l.inClass },
        !.listeners = RemoveFirst(@, l) ]

onSlideInEnd(st, l) ==
    [ st EXCEPT
        !.classes = @ \ { l.inClass },
        !.listeners = RemoveFirst(@, l),
        !.animating = FALSE ]

\* One animationend event: every listener registered when it is dispatched
\* runs, in registration order.
RECURSIVE Dispatch(_, _)
Dispatch(snapshot, st) ==
    IF snapshot = << >> THEN st
    ELSE LET l == Head(snapshot)
         IN  Dispatch(Tail(snapshot),
                      IF l.phase = "out" THEN onSlideOutEnd(st, l)
                      ELSE onSlideInEnd(st, l))

AnimationEndResult ==
    Dispatch(animListeners,
             [ index |-> currentImageIndex, src |-> imageSrc,
               caption |-> captionText, loaded |-> imageLoaded,
               classes |-> imageClasses, listeners |-> animListeners,
               animating |-> isAnimating, advanced |-> 0 ])

AnimationRunning ==
    Has("modalImage") /\ imageClasses \cap ANIMATION_CLASSES # {}

AnimationEndStep ==
    /\ AnimationRunning
    /\ LET r == AnimationEndResult
       IN  /\ currentImageIndex' = r.index
           /\ imageSrc' = r.src
           /\ captionText' = r.caption
           /\ imageLoaded' = r.loaded
           /\ imageClasses' = r.classes
           /\ animListeners' = r.listeners
           /\ isAnimating' = r.animating
    /\ UNCHANGED << cfgVars, allImages, imagePreloadCache, zoomVars,
                    dragState, mouseVars, canToggleZoomOnClick, touchVars,
                    overlayVars, uiVars, cursor, transform, envVars >>

\* The displayed image finishes loading: its intrinsic size is known.
ImageLoadStep ==
    /\ Has("modalImage")
    /\ imageSrc # ""
    /\ ~imageLoaded
    /\ imageLoaded' = TRUE
    /\ UNCHANGED << cfgVars, carVars, zoomVars, dragState, mouseVars,
                    canToggleZoomOnClick, touchVars, imageSrc, captionText,
                    animVars, overlayVars, uiVars, cursor, transform,
                    envVars >>

\* ----------------------------------------------------- zoom, wheel, keys
ZoomButtonStep ==
    /\ Visible
    /\ Has("modalZoom")
    /\ DoToggleZoom
    /\ UNCHANGED << cfgVars, carVars, dragState, mouseVars,
                    canToggleZoomOnClick, touchVars, imgVars, animVars,
                    overlayVars, envVars >>

WheelStep(delta) ==
    /\ Visible
    /\ Has("imageModal")
    /\ Has("modalImage")
    /\ \E rect \in BoundingRects(zoomScale) :
         LET p == handleWheel(Has("modalImage"), zoomScale, viewport,
                              NaturalDims, rect, panX, panY,
                              Px(delta.x), Px(delta.y))
         IN  /\ panX' = p.x
             /\ panY' = p.y
             /\ IF isZoomedIn THEN applyTransform(zoomScale, p.x, p.y)
                ELSE UNCHANGED transform
    /\ UNCHANGED << cfgVars, carVars, zoomScale, dragState, mouseVars,
                    canToggleZoomOnClick, touchVars, imgVars, animVars,
                    overlayVars, uiVars, cursor, envVars >>

\* Faulty variant of handleKeyDown: the keys act while the overlay is hidden.
KeyDownStepAlways(key) ==
    CASE key = "Escape" -> CloseModalStep
      [] key = "ArrowLeft" -> ChangeImageStep(-1)
      [] key = "ArrowRight" -> ChangeImageStep(1)
      [] OTHER -> UNCHANGED progVars

KeyDownStep(key) ==
    IF ~Has("imageModal") \/ modalDisplay # "block" THEN UNCHANGED progVars
    ELSE CASE key = "Escape" -> CloseModalStep
           [] key = "ArrowLeft" -> ChangeImageStep(-1)
           [] key = "ArrowRight" -> ChangeImageStep(1)
           [] OTHER -> UNCHANGED progVars

\* ------------------------------------------------------------ mouse
\* startDrag as a step on dragState, imageClasses and cursor.
DoStartDrag(clientX, clientY) ==
    IF ~isZoomedIn THEN UNCHANGED << dragState, imageClasses, cursor >>
    ELSE /\ dragState' = startDrag(dragState, zoomScale, panX, panY,
                                   clientX, clientY)
         /\ imageClasses' = IF Has("modalImage")
                            THEN imageClasses \cup { "dragging" }
                            ELSE imageClasses
         /\ updateCursor(zoomScale, TRUE)

\* endDrag as a step on dragState, imageClasses and cursor.
DoEndDrag ==
    /\ dragState' = endDrag(dragState)
    /\ imageClasses' = IF Has("modalImage") THEN imageClasses \ { "dragging" }
                       ELSE imageClasses
    /\ updateCursor(zoomScale, FALSE)

\* onDrag for a drag state (the current one, or the one startDrag just
\* made), as a step on dragState, panX, panY and transform.
DoOnDrag(drag, clientX, clientY) ==
    \E rect \in BoundingRects(zoomScale) :
        LET r == onDrag(Has("modalImage"), drag, zoomScale, viewport,
                        NaturalDims, rect, panX, panY, clientX, clientY)
        IN  /\ dragState' = r.drag
            /\ panX' = r.x
            /\ panY' = r.y
            /\ IF drag.isDragging /\ isZoomedIn
               THEN applyTransform(zoomScale, r.x, r.y)
               ELSE UNCHANGED transform

MouseDownStep(p, button) ==
    /\ Visible
    /\ Has("modalImage")
    /\ IF button # 0 THEN UNCHANGED progVars
       ELSE /\ mouseDownX' = Px(p.x)
            /\ mouseDownY' = Px(p.y)
            /\ isMouseDown' = TRUE
            /\ canToggleZoomOnClick' = TRUE
            /\ DoStartDrag(Px(p.x), Px(p.y))
            /\ UNCHANGED << cfgVars, carVars, zoomVars, touchVars, imgVars,
                            animListeners, overlayVars, uiVars, transform,
                            envVars >>

mouseMoved(downX, downY, clientX, clientY) ==
    \/ Abs(clientX - downX) > Px(MOUSE_MOVE_THRESHOLD)
    \/ Abs(clientY - downY) > Px(MOUSE_MOVE_THRESHOLD)

MouseMoveStep(p) ==
    /\ Has("modalImage")
    /\ IF dragState.isDragging
       THEN /\ DoOnDrag(dragState, Px(p.x), Px(p.y))
            /\ UNCHANGED canToggleZoomOnClick
       ELSE /\ canToggleZoomOnClick' =
                 IF isMouseDown
                    /\ mouseMoved(mouseDownX, mouseDownY, Px(p.x), Px(p.y))
                 THEN FALSE
                 ELSE canToggleZoomOnClick
            /\ UNCHANGED << dragState, panX, panY, transform >>
    /\ UNCHANGED << cfgVars, carVars, zoomScale, mouseVars, touchVars,
                    imgVars, animVars, overlayVars, uiVars, cursor,
                    envVars >>

MouseUpStep ==
    /\ Has("modalImage")
    /\ timers < MaxTimers
    /\ IF dragState.isDragging
       THEN /\ DoEndDrag
            /\ canToggleZoomOnClick' =
                 IF wasActualDrag(dragState) THEN FALSE
                 ELSE canToggleZoomOnClick
       ELSE UNCHANGED << dragState, imageClasses, cursor,
                         canToggleZoomOnClick >>
    /\ timers' = timers + 1
    /\ UNCHANGED << cfgVars, carVars, zoomVars, mouseVars, touchVars,
                    imgVars, animListeners, overlayVars, uiVars, transform >>

\* The callback mouse-up scheduled with setTimeout.
TimerStep ==
    /\ timers > 0
    /\ timers' = timers - 1
    /\ IF ~dragState.isDragging
       THEN /\ isMouseDown' = FALSE
            /\ canToggleZoomOnClick' = FALSE
       ELSE UNCHANGED << isMouseDown, canToggleZoomOnClick >>
    /\ UNCHANGED << cfgVars, carVars, zoomVars, dragState, mouseDownX,
                    mouseDownY, touchVars, imgVars, animVars, overlayVars,
                    uiVars, cursor, transform >>

MouseLeaveStep ==
    /\ Has("modalImage")
    /\ IF dragState.isDragging THEN DoEndDrag
       ELSE UNCHANGED << dragState, imageClasses, cursor >>
    /\ canToggleZoomOnClick' = FALSE
    /\ isMouseDown' = FALSE
    /\ UNCHANGED << cfgVars, carVars, zoomVars, mouseDownX, mouseDownY,
                    touchVars, imgVars, animListeners, overlayVars, uiVars,
                    transform, envVars >>

\* A click whose target is the modal image.
ImageClickStep ==
    /\ Visible
    /\ Has("modalImage")
    /\ IF ~dragState.isDragging /\ canToggleZoomOnClick
       THEN /\ DoToggleZoom
            /\ isMouseDown' = FALSE
            /\ canToggleZoomOnClick' = FALSE
            /\ UNCHANGED << cfgVars, carVars, dragState, mouseDownX,
                            mouseDownY, touchVars, imgVars, animVars,
                            overlayVars, envVars >>
       ELSE UNCHANGED progVars

\* ------------------------------------------------------------ touch
\* Faulty variant of the touchstart listener: no drag is started.
TouchStartStepNoDrag(p, touches) ==
    /\ Visible
    /\ Has("modalImage")
    /\ IF touches # 1 THEN UNCHANGED progVars
       ELSE /\ touchStartX' = Px(p.x)
            /\ touchStartY' = Px(p.y)
            /\ touchStartTime' = 0
            /\ touchLastX' = Px(p.x)
            /\ touchLastY' = Px(p.y)
            /\ isTouchActive' = TRUE
            /\ canToggleZoomOnClick' = TRUE
            /\ UNCHANGED << dragState, imageClasses, cursor >>
            /\ UNCHANGED << cfgVars, carVars, zoomVars, mouseVars, imgVars,
                            animListeners, overlayVars, uiVars, transform,
                            envVars >>

TouchStartStep(p, touches) ==
    /\ Visible
    /\ Has("modalImage")
    /\ IF touches # 1 THEN UNCHANGED progVars
       ELSE /\ touchStartX' = Px(p.x)
            /\ touchStartY' = Px(p.y)
            /\ touchStartTime' = 0
            /\ touchLastX' = Px(p.x)
            /\ touchLastY' = Px(p.y)
            /\ isTouchActive' = TRUE
            /\ canToggleZoomOnClick' = TRUE
            /\ DoStartDrag(Px(p.x), Px(p.y))
            /\ UNCHANGED << cfgVars, carVars, zoomVars, mouseVars, imgVars,
                            animListeners, overlayVars, uiVars, transform,
                            envVars >>

touchMoved(startX, startY, clientX, clientY) ==
    \/ Abs(clientX - startX) > Px(TOUCH_MOVE_THRESHOLD)
    \/ Abs(clientY - startY) > Px(TOUCH_MOVE_THRESHOLD)

TouchMoveStep(p, touches) ==
    /\ Has("modalImage")
    /\ IF touches # 1 \/ ~isTouchActive THEN UNCHANGED progVars
       ELSE /\ touchLastX' = Px(p.x)
            /\ touchLastY' = Px(p.y)
            /\ canToggleZoomOnClick' =
                 IF touchMoved(touchStartX, touchStartY, Px(p.x), Px(p.y))
                 THEN FALSE
                 ELSE canToggleZoomOnClick
            /\ IF ~isZoomedIn
               THEN UNCHANGED << dragState, panX, panY, transform,
                                 imageClasses, cursor >>
               ELSE IF dragState.isDragging
               THEN /\ DoOnDrag(dragState, Px(p.x), Px(p.y))
                    /\ UNCHANGED << imageClasses, cursor >>
               ELSE /\ DoOnDrag(startDrag(dragState, zoomScale, panX, panY,
                                          Px(p.x), Px(p.y)),
                                Px(p.x), Px(p.y))
                    /\ imageClasses' = imageClasses \cup { "dragging" }
                    /\ updateCursor(zoomScale, TRUE)
            /\ UNCHANGED << cfgVars, carVars, zoomScale, mouseVars,
                            touchStartX, touchStartY, touchStartTime,
                            isTouchActive, imgVars, animListeners,
                            overlayVars, uiVars, envVars >>

\* Faulty variant of swipeDirection: the limits themselves are no swipe.
swipeDirectionStrict(zoom, startX, startY, endX, endY, duration) ==
    LET deltaX == endX - startX
        deltaY == endY - startY
    IN  IF IsZoomed(zoom) THEN 0
        ELSE IF \/ Abs(deltaX) <= Px(SWIPE_MIN_DISTANCE)
                \/ Abs(deltaX) <= Abs(deltaY)
                \/ duration >= SWIPE_MAX_DURATION
        THEN 0
        ELSE IF deltaX < 0 THEN 1 ELSE -1

\* Faulty variant of swipeDirection: the direction follows the finger.
swipeDirectionFollowing(zoom, startX, startY, endX, endY, duration) ==
    LET deltaX == endX - startX
        deltaY == endY - startY
    IN  IF IsZoomed(zoom) THEN 0
        ELSE IF \/ Abs(deltaX) < Px(SWIPE_MIN_DISTANCE)
                \/ Abs(deltaX) <= Abs(deltaY)
                \/ duration > SWIPE_MAX_DURATION
        THEN 0
        ELSE IF deltaX < 0 THEN -1 ELSE 1

\* handleSwipeGesture's decision: 0 when the gesture is no swipe, else the
\* direction it navigates in.
swipeDirection(zoom, startX, startY, endX, endY, duration) ==
    LET deltaX == endX - startX
        deltaY == endY - startY
    IN  IF IsZoomed(zoom) THEN 0
        ELSE IF \/ Abs(deltaX) < Px(SWIPE_MIN_DISTANCE)
                \/ Abs(deltaX) <= Abs(deltaY)
                \/ duration > SWIPE_MAX_DURATION
        THEN 0
        ELSE IF deltaX < 0 THEN 1 ELSE -1

\* Faulty variant of the tap test: a touch of exactly 300 ms is a tap.
isQuickTapInclusive(canToggle, duration) ==
    canToggle /\ duration <= TAP_MAX_DURATION

isQuickTap(canToggle, duration) == canToggle /\ duration < TAP_MAX_DURATION

\* Faulty variant of the touchend listener: after a swipe the tap test runs
\* as well.
TouchEndStepSwipeThenTap(p, dateNow) ==
    /\ Has("modalImage")
    /\ LET duration == dateNow - touchStartTime
           direction == swipeDirection(zoomScale, touchStartX, touchStartY,
                                       Px(p.x), Px(p.y), duration)
       IN  IF dragState.isDragging
           THEN /\ DoEndDrag
                /\ UNCHANGED << isAnimating, animListeners, zoomVars,
                                transform, uiVars >>
           ELSE IF isTouchActive /\ direction # 0
                   /\ isQuickTap(canToggleZoomOnClick, duration)
           THEN /\ changeImage(direction)
                /\ zoomScale' = toggleZoomScale(zoomScale)
                /\ UNCHANGED << dragState, cursor, panX, panY, transform,
                                uiVars >>
           ELSE IF isTouchActive /\ direction # 0
           THEN /\ changeImage(direction)
                /\ UNCHANGED << dragState, cursor, zoomVars, transform,
                                uiVars >>
           ELSE IF isTouchActive
                   /\ isQuickTap(canToggleZoomOnClick, duration)
           THEN /\ DoToggleZoom
                /\ UNCHANGED << dragState, isAnimating, animVars >>
           ELSE UNCHANGED << dragState, isAnimating, animVars, cursor,
                             zoomVars, transform, uiVars >>
    /\ isTouchActive' = FALSE
    /\ canToggleZoomOnClick' = FALSE
    /\ UNCHANGED << cfgVars, currentImageIndex, allImages, imagePreloadCache,
                    mouseVars, touchStartX, touchStartY, touchStartTime,
                    touchLastX, touchLastY, imgVars, overlayVars, envVars >>

TouchEndStep(p, dateNow) ==
    /\ Has("modalImage")
    /\ LET duration == dateNow - touchStartTime
           direction == swipeDirection(zoomScale, touchStartX, touchStartY,
                                       Px(p.x), Px(p.y), duration)
       IN  IF dragState.isDragging
           THEN /\ DoEndDrag
                /\ UNCHANGED << isAnimating, animListeners, zoomVars,
                                transform, uiVars >>
           ELSE IF isTouchActive /\ direction # 0
           THEN /\ changeImage(direction)
                /\ UNCHANGED << dragState, cursor, zoomVars, transform,
                                uiVars >>
           ELSE IF isTouchActive
                   /\ isQuickTap(canToggleZoomOnClick, duration)
           THEN /\ DoToggleZoom
                /\ UNCHANGED << dragState, isAnimating, animVars >>
           ELSE UNCHANGED << dragState, isAnimating, animVars, cursor,
                             zoomVars, transform, uiVars >>
    /\ isTouchActive' = FALSE
    /\ canToggleZoomOnClick' = FALSE
    /\ UNCHANGED << cfgVars, currentImageIndex, allImages, imagePreloadCache,
                    mouseVars, touchStartX, touchStartY, touchStartTime,
                    touchLastX, touchLastY, imgVars, overlayVars, envVars >>

TouchCancelStep ==
    /\ Has("modalImage")
    /\ IF dragState.isDragging THEN DoEndDrag
       ELSE UNCHANGED << dragState, imageClasses, cursor >>
    /\ isTouchActive' = FALSE
    /\ canToggleZoomOnClick' = FALSE
    /\ UNCHANGED << cfgVars, carVars, zoomVars, mouseVars, touchStartX,
                    touchStartY, touchStartTime, touchLastX, touchLastY,
                    imgVars, animListeners, overlayVars, uiVars, transform,
                    envVars >>

\* ------------------------------------------------------ the viewer
OpenModal == \E img \in ClickedImgs : OpenModalStep(img) /\ UNCHANGED histVars
ChangeImage == \E d \in { -1, 1 } : ChangeImageStep(d) /\ UNCHANGED histVars
ArrowClick ==
    \E d \in { -1, 1 } :
        /\ Visible
        /\ Has(IF d < 0 THEN "modalArrowLeft" ELSE "modalArrowRight")
        /\ arrowDisplay # "none"
        /\ ChangeImageStep(d)
        /\ UNCHANGED histVars
CloseModal == CloseModalStep /\ UNCHANGED histVars
CloseButtonClick ==
    Visible /\ Has("modalClose") /\ CloseModalStep /\ UNCHANGED histVars
OutsideClick ==
    Visible /\ Has("imageModal") /\ CloseModalStep /\ UNCHANGED histVars
AnimationEnd == AnimationEndStep /\ UNCHANGED histVars
ImageLoad == ImageLoadStep /\ UNCHANGED histVars
ZoomButtonClick == ZoomButtonStep /\ UNCHANGED histVars
Wheel == \E delta \in WheelDeltas : WheelStep(delta) /\ UNCHANGED histVars
KeyDown == \E key \in Keys : KeyDownStep(key) /\ UNCHANGED histVars
MouseDown ==
    \E p \in StartPoints, button \in { 0, 2 } :
        pointer = "mouse" /\ MouseDownStep(p, button) /\ UNCHANGED histVars
MouseMove ==
    \E p \in Points :
        pointer = "mouse" /\ MouseMoveStep(p) /\ UNCHANGED histVars
MouseUp == pointer = "mouse" /\ MouseUpStep /\ UNCHANGED histVars
Timer == TimerStep /\ UNCHANGED histVars
MouseLeave == pointer = "mouse" /\ MouseLeaveStep /\ UNCHANGED histVars
ImageClick == pointer = "mouse" /\ ImageClickStep /\ UNCHANGED histVars
TouchStart ==
    \E p \in StartPoints, touches \in { 1, 2 } :
        pointer = "touch" /\ TouchStartStep(p, touches) /\ UNCHANGED histVars
TouchMove ==
    \E p \in Points, touches \in { 1, 2 } :
        pointer = "touch" /\ TouchMoveStep(p, touches) /\ UNCHANGED histVars
TouchEnd ==
    \E p \in Points, duration \in Durations :
        pointer = "touch" /\ TouchEndStep(p, duration) /\ UNCHANGED histVars
TouchCancel == pointer = "touch" /\ TouchCancelStep /\ UNCHANGED histVars

Next ==
    \/ OpenModal
    \/ ChangeImage
    \/ ArrowClick
    \/ CloseModal
    \/ CloseButtonClick
    \/ OutsideClick
    \/ AnimationEnd
    \/ ImageLoad
    \/ ZoomButtonClick
    \/ Wheel
    \/ KeyDown
    \/ MouseDown
    \/ MouseMove
    \/ MouseUp
    \/ Timer
    \/ MouseLeave
    \/ ImageClick
    \/ TouchStart
    \/ TouchMove
    \/ TouchEnd
    \/ TouchCancel

Spec == Init /\ [][Next]_vars

\* ------------------------------------------- navigation with its history
\* The viewer restricted to open, navigate, animation end, keys and close,
\* with a record of the navigations accepted and completed since the last
\* open: navStart the index that open set, navDirs the directions accepted,
\* navDone the number of index advances, navClean whether no navigation
\* was in flight at that open.
NavInit ==
    /\ imageData \in NavImageDataSet
    /\ elements \in Documents
    /\ viewport \in Viewports
    /\ pointer = "mouse"
    /\ InitController
    /\ InitPage
    /\ InitLanguage
    /\ InitHistory

NavRecord(direction) ==
    IF ChangeImageAccepted
    THEN /\ navDirs' = Append(navDirs, direction)
         /\ UNCHANGED << navStart, navDone, navClean, lastCall, gesture >>
    ELSE UNCHANGED histVars

NavOpenModal ==
    \E img \in ClickedImgs :
        /\ OpenModalStep(img)
        /\ IF ensureElementsReady
           THEN /\ navStart' = currentImageIndex'
                /\ navDirs' = << >>
                /\ navDone' = 0
                /\ navClean' = ~isAnimating
                /\ UNCHANGED << lastCall, gesture >>
           ELSE UNCHANGED histVars

NavChangeImage ==
    \E d \in { -1, 1 } :
        /\ Len(navDirs) < MaxNav
        /\ ChangeImageStep(d)
        /\ NavRecord(d)

NavKeyDown ==
    \E key \in Keys :
        /\ key \in { "ArrowLeft", "ArrowRight" } => Len(navDirs) < MaxNav
        /\ KeyDownStep(key)
        /\ IF Has("imageModal") /\ Visible /\ key = "ArrowLeft"
           THEN NavRecord(-1)
           ELSE IF Has("imageModal") /\ Visible /\ key = "ArrowRight"
           THEN NavRecord(1)
           ELSE UNCHANGED histVars

NavAnimationEnd ==
    /\ AnimationEndStep
    /\ navDone' = navDone + AnimationEndResult.advanced
    /\ UNCHANGED << navStart, navDirs, navClean, lastCall, gesture >>

NavCloseModal == CloseModalStep /\ UNCHANGED histVars

NavNext ==
    \/ NavOpenModal
    \/ NavChangeImage
    \/ NavKeyDown
    \/ NavAnimationEnd
    \/ NavCloseModal

NavSpec == NavInit /\ [][NavNext]_vars

\* Every started animation eventually ends: the browser delivers its
\* animationend event.
NavFairSpec == NavSpec /\ WF_vars(NavAnimationEnd)

\* Sum of the first n directions of a history.
RECURSIVE SumDirs(_, _)
SumDirs(dirs, n) ==
    IF n <= 0 \/ dirs = << >> THEN 0
    ELSE Head(dirs) + SumDirs(Tail(dirs), n - 1)

OutPending == \E i \in 1 .. Len(animListeners) : animListeners[i].phase = "out"
InPending == \E i \in 1 .. Len(animListeners) : animListeners[i].phase = "in"

\* ------------------------------------------------ mouse gestures
\* The viewer under the mouse alone, with a record of the gesture under
\* way: its phase ("idle", "down" between a left-button press on the image
\* and the release, "up" between the release and the click the browser
\* dispatches right after it), the pointer position, the position of the
\* press, whether the pointer moved since the press and whether it was ever
\* more than 5 px away from the press along an axis.  All in pixels.
GesturePoints ==
    { [x |-> 0, y |-> 0], [x |-> 4, y |-> 0], [x |-> 8, y |-> 0] }

GestureInit ==
    /\ imageData \in ImageDataSet
    /\ elements \in Documents
    /\ viewport \in Viewports
    /\ pointer = "mouse"
    /\ InitController
    /\ InitPage
    /\ InitLanguage
    /\ InitHistory

GestureIdle == gesture.phase = "idle"

GestureOpenModal ==
    \E img \in ClickedImgs :
        GestureIdle /\ OpenModalStep(img) /\ UNCHANGED histVars

GestureImageLoad == ImageLoadStep /\ UNCHANGED histVars

GestureZoomButtonClick == GestureIdle /\ ZoomButtonStep /\ UNCHANGED histVars

GestureWheel ==
    \E delta \in WheelDeltas :
        GestureIdle /\ WheelStep(delta) /\ UNCHANGED histVars

\* A press at the pointer's position; only the left button starts a gesture.
GestureMouseDown ==
    \E button \in { 0, 2 } :
        /\ GestureIdle
        /\ MouseDownStep([ x |-> gesture.x, y |-> gesture.y ], button)
        /\ gesture' = IF button # 0 THEN gesture
                      ELSE [ gesture EXCEPT !.phase = "down",
                                            !.downX = gesture.x,
                                            !.downY = gesture.y,
                                            !.moved = FALSE,
                                            !.far = FALSE,
                                            !.zoom0 = zoomScale,
                                            !.panX0 = panX,
                                            !.panY0 = panY ]
        /\ UNCHANGED << navVars, lastCall >>

GestureMouseMove ==
    \E p \in GesturePoints :
        /\ gesture.phase # "up"
        /\ p # [ x |-> gesture.x, y |-> gesture.y ]
        /\ MouseMoveStep(p)
        /\ gesture' =
             IF gesture.phase # "down"
             THEN [ gesture EXCEPT !.x = p.x, !.y = p.y ]
             ELSE [ gesture EXCEPT
                      !.x = p.x, !.y = p.y, !.moved = TRUE,
                      !.far = @ \/ Abs(p.x - gesture.downX) > 5
                                \/ Abs(p.y - gesture.downY) > 5 ]
        /\ UNCHANGED << navVars, lastCall >>

\* A release: of the gesture's button, or of another button (no gesture).
GestureMouseUp ==
    /\ gesture.phase # "up"
    /\ MouseUpStep
    /\ gesture' = IF gesture.phase = "down"
                  THEN [ gesture EXCEPT !.phase = "up" ]
                  ELSE gesture
    /\ UNCHANGED << navVars, lastCall >>

\* A timer callback is a task of its own: it does not run between a
\* mouseup and the click dispatched with it.
GestureTimer == gesture.phase # "up" /\ TimerStep /\ UNCHANGED histVars

GestureImageClick ==
    /\ gesture.phase = "up"
    /\ ImageClickStep
    /\ gesture' = [ gesture EXCEPT !.phase = "idle" ]
    /\ UNCHANGED << navVars, lastCall >>

GestureNext ==
    \/ GestureOpenModal
    \/ GestureImageLoad
    \/ GestureZoomButtonClick
    \/ GestureWheel
    \/ GestureMouseDown
    \/ GestureMouseMove
    \/ GestureMouseUp
    \/ GestureTimer
    \/ GestureImageClick

GestureSpec == GestureInit /\ [][GestureNext]_vars

\* The press that starts a gesture; a mouse move during a gesture.
GesturePress == gesture.phase = "idle" /\ gesture'.phase = "down"
GestureMove ==
    /\ gesture.phase = "down"
    /\ gesture'.phase = "down"
    /\ << gesture'.x, gesture'.y >> # << gesture.x, gesture.y >>

\* The click that ends a gesture.
GestureClick == gesture.phase = "up" /\ gesture'.phase = "idle"

\* ------------------------------------------------ calls on the viewer
\* The viewer without pointer gestures (open, navigate, animation end,
\* image load, zoom button, wheel, keys, close), with a record of the last
\* call made on it: the operation, the clicked source of an open, the
\* direction of a navigation, and the zoom and pan an open or a zoom
\* toggle found.
ViewDocuments == Documents \cup { DOM_IDS \ {"imageModal"} }

Call(op) == [ NoCall EXCEPT !.op = op ]

CallAt(op, src) ==
    [ NoCall EXCEPT !.op = op, !.src = src, !.zoom = zoomScale,
                    !.panX = panX, !.panY = panY ]

ViewInit ==
    /\ imageData \in NavImageDataSet
    /\ elements \in ViewDocuments
    /\ viewport \in Viewports
    /\ pointer = "mouse"
    /\ InitController
    /\ InitPage
    /\ InitLanguage
    /\ InitHistory

ViewOpenModal ==
    \E img \in ClickedImgs :
        /\ OpenModalStep(img)
        /\ lastCall' = CallAt("openModal",
                              IF img.srcOriginal # "" THEN img.srcOriginal
                              ELSE img.src)
        /\ UNCHANGED << navVars, gesture >>

ViewChangeImage ==
    \E d \in { -1, 1 } :
        /\ ChangeImageStep(d)
        /\ lastCall' = [ Call("changeImage") EXCEPT !.dir = d ]
        /\ UNCHANGED << navVars, gesture >>

ViewCloseModal ==
    /\ CloseModalStep
    /\ lastCall' = Call("closeModal")
    /\ UNCHANGED << navVars, gesture >>

ViewAnimationEnd ==
    /\ AnimationEndStep
    /\ lastCall' = Call("animationend")
    /\ UNCHANGED << navVars, gesture >>

ViewImageLoad ==
    /\ ImageLoadStep
    /\ lastCall' = Call("load")
    /\ UNCHANGED << navVars, gesture >>

ViewZoomButtonClick ==
    /\ ZoomButtonStep
    /\ lastCall' = CallAt("toggleZoom", "")
    /\ UNCHANGED << navVars, gesture >>

\* Wheel deltas of the calls recorded: the large ones and a small one.
ViewWheelDeltas == WheelDeltas \cup { [x |-> 4, y |-> 2] }

ViewWheel ==
    \E delta \in ViewWheelDeltas :
        /\ WheelStep(delta)
        /\ lastCall' = [ CallAt("wheel", "") EXCEPT !.x = delta.x,
                                                    !.y = delta.y ]
        /\ UNCHANGED << navVars, gesture >>

\* A key press: the call handleKeyDown makes, if any.
ViewKeyDown ==
    \E key \in Keys :
        /\ KeyDownStep(key)
        /\ lastCall' =
             [ ( IF ~Has("imageModal") \/ modalDisplay # "block"
                 THEN Call("keydown")
                 ELSE CASE key = "Escape" -> Call("closeModal")
                        [] key = "ArrowLeft" ->
                             [ Call("changeImage") EXCEPT !.dir = -1 ]
                        [] key = "ArrowRight" ->
                             [ Call("changeImage") EXCEPT !.dir = 1 ]
                        [] OTHER -> Call("keydown") )
               EXCEPT !.key = key ]
        /\ UNCHANGED << navVars, gesture >>

ViewNext ==
    \/ ViewOpenModal
    \/ ViewChangeImage
    \/ ViewCloseModal
    \/ ViewAnimationEnd
    \/ ViewImageLoad
    \/ ViewZoomButtonClick
    \/ ViewWheel
    \/ ViewKeyDown

ViewSpec == ViewInit /\ [][ViewNext]_vars

\* ------------------------------------------------ toggleZoom on any input
\* toggleZoom applied to any zoom factor and pan, in a viewer showing the
\* first image of its carousel: the zoom factors include values below,
\* between and above the two the viewer uses.
ZoomInputs == { 5, ZOOM_MIN, 15, ZOOM_MAX, 30 }
PanInputs == { Px(-30), 0, Px(12) }

ToggleInit ==
    /\ InitLanguage
    /\ imageData \in ImageDataSet
    /\ elements \in Documents
    /\ viewport \in Viewports
    /\ pointer = "mouse"
    /\ currentImageIndex = 0
    /\ allImages = collectAllImages(imageData)
    /\ isAnimating = FALSE
    /\ imagePreloadCache = preloadCarouselImages({}, allImages)
    /\ zoomScale \in ZoomInputs
    /\ panX \in PanInputs
    /\ panY \in PanInputs
    /\ dragState =
         [ isDragging |-> FALSE, startX |-> 0, startY |-> 0,
           hasMoved |-> FALSE ]
    /\ mouseDownX = 0
    /\ mouseDownY = 0
    /\ isMouseDown = FALSE
    /\ canToggleZoomOnClick = FALSE
    /\ touchStartX = 0
    /\ touchStartY = 0
    /\ touchStartTime = 0
    /\ touchLastX = 0
    /\ touchLastY = 0
    /\ isTouchActive = FALSE
    /\ modalDisplay = "block"
    /\ bodyOverflow = "hidden"
    /\ imageSrc = allImages[1].srcOriginal
    /\ captionText = allImages[1].alt
    /\ imageLoaded \in BOOLEAN
    /\ imageClasses = {}
    /\ animListeners = << >>
    /\ captionDisplay = ""
    /\ arrowDisplay = ""
    /\ modalZoomed = FALSE
    /\ cursor = ""
    /\ transform = NoTransform
    /\ zoomIconSrc = ""
    /\ timers = 0
    /\ InitHistory

ToggleNext == ViewZoomButtonClick

ToggleSpec == ToggleInit /\ [][ToggleNext]_vars

\* ------------------------------------------------ touch gestures
\* The viewer under one finger: a gesture is a touchstart, touchmoves and a
\* touchend at the finger's last position (or a touchcancel).  gesture
\* keeps the start, the position and whether the finger ever was more than
\* 3 px from the start on an axis; lastCall keeps the end position and the
\* duration t (milliseconds) of the last touchend.
TouchStartPoints == { [x |-> 0, y |-> 0], [x |-> 80, y |-> 10] }

TouchPoints ==
    { [x |-> 0, y |-> 0], [x |-> 3, y |-> 0], [x |-> 4, y |-> 0],
      [x |-> 40, y |-> 10], [x |-> 50, y |-> 10], [x |-> 80, y |-> 10],
      [x |-> 60, y |-> 60], [x |-> 60, y |-> 70] }

TouchInit ==
    /\ imageData \in ImageDataSet
    /\ elements = DOM_IDS
    /\ viewport \in Viewports
    /\ pointer = "touch"
    /\ InitController
    /\ InitPage
    /\ InitLanguage
    /\ InitHistory

FingerOpenModal ==
    /\ gesture.phase = "idle"
    /\ OpenModalStep([ src |-> buildImageUrl(imageData.src),
                       srcOriginal |-> "" ])
    /\ lastCall' = Call("openModal")
    /\ UNCHANGED << navVars, gesture >>

FingerImageLoad ==
    /\ ImageLoadStep
    /\ lastCall' = Call("load")
    /\ UNCHANGED << navVars, gesture >>

FingerZoomButtonClick ==
    /\ gesture.phase = "idle"
    /\ ZoomButtonStep
    /\ lastCall' = Call("toggleZoom")
    /\ UNCHANGED << navVars, gesture >>

FingerAnimationEnd ==
    /\ AnimationEndStep
    /\ lastCall' = Call("animationend")
    /\ UNCHANGED << navVars, gesture >>

FingerDown ==
    \E p \in TouchStartPoints :
        /\ gesture.phase = "idle"
        /\ TouchStartStep(p, 1)
        /\ gesture' = [ NoGesture EXCEPT !.phase = "down",
                                         !.x = p.x, !.y = p.y,
                                         !.downX = p.x, !.downY = p.y,
                                         !.zoom0 = zoomScale ]
        /\ lastCall' = Call("touchstart")
        /\ UNCHANGED navVars

\* Zoomed in, the finger pans between the two start points.
FingerMove ==
    \E p \in (IF isZoomedIn THEN TouchStartPoints ELSE TouchPoints) :
        /\ gesture.phase = "down"
        /\ p # [ x |-> gesture.x, y |-> gesture.y ]
        /\ TouchMoveStep(p, 1)
        /\ gesture' = [ gesture EXCEPT
                          !.x = p.x, !.y = p.y, !.moved = TRUE,
                          !.far = @ \/ Abs(p.x - gesture.downX) > 3
                                    \/ Abs(p.y - gesture.downY) > 3 ]
        /\ lastCall' = Call("touchmove")
        /\ UNCHANGED navVars

FingerUp ==
    \E duration \in Durations :
        /\ gesture.phase = "down"
        /\ TouchEndStep([ x |-> gesture.x, y |-> gesture.y ], duration)
        /\ gesture' = NoGesture
        /\ lastCall' = [ CallAt("touchend", "") EXCEPT !.x = gesture.x,
                                                       !.y = gesture.y,
                                                       !.t = duration ]
        /\ UNCHANGED navVars

FingerCancel ==
    /\ gesture.phase = "down"
    /\ TouchCancelStep
    /\ gesture' = NoGesture
    /\ lastCall' = Call("touchcancel")
    /\ UNCHANGED navVars

TouchNext ==
    \/ FingerOpenModal
    \/ FingerImageLoad
    \/ FingerZoomButtonClick
    \/ FingerAnimationEnd
    \/ FingerDown
    \/ FingerMove
    \/ FingerUp
    \/ FingerCancel

TouchSpec == TouchInit /\ [][TouchNext]_vars

\* The same viewer where the touchend event carries its own position
\* (changedTouches), which need not be that of the last touchmove.
LiftPoints == TouchStartPoints \cup { [x |-> 40, y |-> 10] }

FingerLift ==
    \E p \in LiftPoints, duration \in Durations :
        /\ gesture.phase = "down"
        /\ TouchEndStep(p, duration)
        /\ gesture' = NoGesture
        /\ lastCall' = [ CallAt("touchend", "") EXCEPT !.x = p.x, !.y = p.y,
                                                       !.t = duration ]
        /\ UNCHANGED navVars

LiftNext ==
    \/ FingerOpenModal
    \/ FingerImageLoad
    \/ FingerZoomButtonClick
    \/ FingerAnimationEnd
    \/ FingerDown
    \/ FingerMove
    \/ FingerLift
    \/ FingerCancel

LiftSpec == TouchInit /\ [][LiftNext]_vars

\* ------------------------------------------- language switching
\* The language switcher on the pages of the site, served from the root or
\* under /paintings-artist-gallery-porfolio, without <base> tag or with
\* one naming the site's base (with or without the final slash).  A click
\* on a language option that leads elsewhere loads that page, whose script
\* constructs a new switcher.
EnglishPages ==
    { << "/" >>, << "/", "artwork", "/", "42" >>, << "/", "about" >>,
      << "/", "about", "/" >> }

SpanishPages ==
    { << "/", "es", "/" >>, << "/", "es", "/", "artwork", "/", "42" >>,
      << "/", "es", "/", "about" >>, << "/", "es", "/", "about", "/" >> }

Sites ==
    { [ prefix |-> << >>, baseTag |-> << >> ],
      [ prefix |-> << >>, baseTag |-> << "/" >> ],
      [ prefix |-> << "/", REPO >>, baseTag |-> << >> ],
      [ prefix |-> << "/", REPO >>, baseTag |-> << "/", REPO, "/" >> ],
      [ prefix |-> << "/", REPO >>, baseTag |-> << "/", REPO >> ] }

LangInit ==
    /\ imageData \in { d \in ImageDataSet : d.additionalPhotos = << >> }
    /\ elements = DOM_IDS
    /\ viewport \in Viewports
    /\ pointer = "mouse"
    /\ InitController
    /\ InitPage
    /\ InitHistory
    /\ \E site \in Sites, path \in EnglishPages \cup SpanishPages :
          page = [ pathname |-> site.prefix \o path,
                   baseTag |-> site.baseTag ]
    /\ switcher = NewSwitcher(page.baseTag, page.pathname)
    /\ visited = << >>

LangToggleDropdown ==
    /\ switcher' = [ switcher EXCEPT !.open = ~@ ]
    /\ UNCHANGED << page, visited >>

LangCloseDropdown ==
    /\ switcher' = [ switcher EXCEPT !.open = FALSE ]
    /\ UNCHANGED << page, visited >>

switchLanguage(lang) ==
    IF lang \notin LANGUAGES THEN UNCHANGED << page, switcher, visited >>
    ELSE LET currentPath == page.pathname
             newPath == convertPath(page.pathname, currentPath, lang,
                                    switcher.baseUrl)
         IN  IF newPath # currentPath
             THEN /\ page' = [ page EXCEPT !.pathname = newPath ]
                  /\ switcher' = NewSwitcher(page.baseTag, newPath)
                  /\ visited' = Append(visited, currentPath)
             ELSE /\ switcher' = [ switcher EXCEPT !.open = FALSE ]
                  /\ UNCHANGED << page, visited >>

LangOptionClick ==
    \E lang \in LANGUAGES \cup { "fr" } :
        /\ Len(visited) < MaxVisits
        /\ switchLanguage(lang)

LangNext ==
    /\ \/ LangToggleDropdown
       \/ LangCloseDropdown
       \/ LangOptionClick
    /\ UNCHANGED << imageData, elements, viewport, pointer, carVars,
                    zoomVars, dragState, mouseVars, canToggleZoomOnClick,
                    touchVars, imgVars, animVars, overlayVars, uiVars,
                    cursor, transform, envVars, histVars >>

LangSpec == LangInit /\ [][LangNext]_vars

\* ------------------------------------------------ pan bounds
\* The viewer on one image, for viewports on both sides of the layout
\* thresholds and images wider and taller than the viewport: open, image
\* load, zoom button, wheel and mouse drag, with a record of the last call
\* (x, y: the pointer position or the wheel deltas, in pixels).
PanViewports ==
    { [w |-> 40, h |-> 40], [w |-> 767, h |-> 800], [w |-> 768, h |-> 800],
      [w |-> 1000, h |-> 800], [w |-> 1023, h |-> 800],
      [w |-> 1024, h |-> 800] }

PanImageDataSet ==
    { [src |-> name, srcOriginal |-> "", alt |-> name,
       additionalPhotos |-> << >>] :
        name \in { "a.jpg", "c.jpg", "wide.jpg", "tall.jpg" } }

PanPoints ==
    { [x |-> 0, y |-> 0], [x |-> 750, y |-> 0], [x |-> 2250, y |-> 0],
      [x |-> 0, y |-> 400] }

PanWheelDeltas == { [x |-> 0, y |-> 200] }

\* Intrinsic sizes and displayed boxes (pixels) the bounds are computed for.
PanNaturals == { NaturalSize(buildImageUrl(d.src)) : d \in PanImageDataSet }
PanBoxes ==
    { [w |-> 8, h |-> 8], [w |-> 16, h |-> 16], [w |-> 40, h |-> 20],
      [w |-> 320, h |-> 640], [w |-> 1000, h |-> 500],
      [w |-> 1200, h |-> 200] }

\* Rendered bounding boxes (quarter pixels) that give no base size: zero or
\* negative in a dimension.
UnusableRects ==
    { [w |-> 0, h |-> 0], [w |-> Px(8), h |-> 0], [w |-> 0, h |-> Px(8)],
      [w |-> -Px(4), h |-> Px(8)], [w |-> Px(8), h |-> -Px(4)] }

PanInit ==
    /\ imageData \in PanImageDataSet
    /\ elements = DOM_IDS
    /\ viewport \in PanViewports
    /\ pointer = "mouse"
    /\ InitController
    /\ InitPage
    /\ InitLanguage
    /\ InitHistory

PanOpenModal ==
    /\ OpenModalStep([ src |-> buildImageUrl(imageData.src),
                       srcOriginal |-> "" ])
    /\ lastCall' = CallAt("openModal", buildImageUrl(imageData.src))
    /\ UNCHANGED << navVars, gesture >>

PanImageLoad ==
    /\ ImageLoadStep
    /\ lastCall' = Call("load")
    /\ UNCHANGED << navVars, gesture >>

PanZoomButtonClick ==
    /\ ZoomButtonStep
    /\ lastCall' = CallAt("toggleZoom", "")
    /\ UNCHANGED << navVars, gesture >>

PanWheel ==
    \E delta \in PanWheelDeltas :
        /\ WheelStep(delta)
        /\ lastCall' = [ CallAt("wheel", "") EXCEPT !.x = delta.x,
                                                    !.y = delta.y ]
        /\ UNCHANGED << navVars, gesture >>

PanMouseDown ==
    \E p \in StartPoints :
        /\ MouseDownStep(p, 0)
        /\ lastCall' = [ CallAt("mousedown", "") EXCEPT !.x = p.x, !.y = p.y ]
        /\ UNCHANGED << navVars, gesture >>

PanMouseMove ==
    \E p \in PanPoints :
        /\ MouseMoveStep(p)
        /\ lastCall' = [ CallAt("mousemove", "") EXCEPT !.x = p.x, !.y = p.y ]
        /\ UNCHANGED << navVars, gesture >>

PanMouseUp ==
    /\ MouseUpStep
    /\ lastCall' = Call("mouseup")
    /\ UNCHANGED << navVars, gesture >>

PanTimer ==
    /\ TimerStep
    /\ lastCall' = Call("timer")
    /\ UNCHANGED << navVars, gesture >>

PanNext ==
    \/ PanOpenModal
    \/ PanImageLoad
    \/ PanZoomButtonClick
    \/ PanWheel
    \/ PanMouseDown
    \/ PanMouseMove
    \/ PanMouseUp
    \/ PanTimer

PanSpec == PanInit /\ [][PanNext]_vars

\* ------------------------------------------------------------- claims

\* C1: after k navigations run to completion since an open at index i (made
\* while no navigation was in flight), the current index is i plus the sum
\* of their directions modulo the number of images (i + k*d for k
\* navigations in one direction d), and lies in [0, N).
C1_NavigateLands ==
    (navClean /\ allImages # << >>) =>
        /\ currentImageIndex =
             (navStart + SumDirs(navDirs, navDone)) % Len(allImages)
        /\ currentImageIndex \in 0 .. Len(allImages) - 1

\* Three images opened at index 1: +1 gave 2 and a second +1 wrapped to 0.
C1_Witness ==
    /\ navClean
    /\ Len(allImages) = 3
    /\ navStart = 1
    /\ navDirs = << 1, 1 >>
    /\ navDone = 2
    /\ ~isAnimating
    /\ currentImageIndex = 0

\* C2: once the viewer has been opened, the current index is a valid index
\* of the carousel, in every reachable state.
C2_IndexValid ==
    allImages # << >> => currentImageIndex \in 0 .. Len(allImages) - 1

\* A carousel at its last image, reached by a backward wrap from index 0,
\* in a closed viewer.
C2_Witness ==
    /\ Len(allImages) >= 2
    /\ currentImageIndex = Len(allImages) - 1
    /\ "modal__content--in-left" \in imageClasses
    /\ modalDisplay = "none"

\* C3: at most one navigation is in flight: never two animation listeners,
\* and the navigations accepted since an open exceed the index advances by
\* at most one, by exactly one while a slide-out is pending.
C3_OneNavigationInFlight ==
    /\ Len(animListeners) <= 1
    /\ navClean =>
         /\ Len(navDirs) - navDone \in { 0, 1 }
         /\ (Len(navDirs) - navDone = 1) <=> OutPending
         /\ (OutPending \/ InPending) => isAnimating

\* A second navigation in flight after a first one has completed.
C3_Witness ==
    /\ navClean
    /\ Len(navDirs) = 2
    /\ navDone = 1
    /\ isAnimating
    /\ OutPending

\* C4: while a navigation is in flight the displayed image and caption
\* change only in the step that completes the slide-out.
C4_ImageStableInTransition ==
    [][ (isAnimating /\ (imageSrc' # imageSrc \/ captionText' # captionText))
            => (OutPending /\ InPending') ]_vars

\* C5: every accepted navigation completes: a pending slide-out leads to
\* the slide-in, and the slide-in leads to the release of isAnimating.
C5_NavigationCompletes ==
    /\ OutPending ~> InPending
    /\ InPending ~> ~isAnimating
    /\ isAnimating ~> ~isAnimating

\* A navigation in flight in a viewer that was closed meanwhile.
C5_Witness == isAnimating /\ InPending /\ modalDisplay = "none"

\* C6: the zoom level is exactly 1.0 or exactly 2.5.
C6_ZoomBinary == zoomScale \in { ZOOM_MIN, ZOOM_MAX }

\* Zoomed in to 2.5 and panned.
C6_Witness == zoomScale = ZOOM_MAX /\ panX # 0 /\ transform.zoom = ZOOM_MAX

\* C7: when the zoom is 1.0 the pan is (0, 0).
C7_UnzoomedPanZero == zoomScale = ZOOM_MIN => (panX = 0 /\ panY = 0)

\* Back at zoom 1.0 after a drag that began from a non-zero pan.
C7_Witness ==
    /\ zoomScale = ZOOM_MIN
    /\ transform.zoom = ZOOM_MIN
    /\ dragState.startX # 0

\* C8: while zoomed in, the pan lies within the pan bounds computed for
\* the displayed image, the zoom and the viewport (no pan when no bounds
\* can be computed).
C8_PanWithinBounds ==
    isZoomedIn =>
        \A rect \in BoundingRects(zoomScale) :
            LET b == calculatePanBounds(Has("modalImage"), zoomScale,
                                        viewport, NaturalDims, rect)
            IN  Abs(panX) <= b.maxX /\ Abs(panY) <= b.maxY

\* C9: right after closeModal the viewer state is at its defaults.
C9_CloseResets ==
    [][ (modalDisplay = "block" /\ modalDisplay' = "none") =>
            /\ zoomScale' = ZOOM_DEFAULT
            /\ panX' = 0
            /\ panY' = 0
            /\ ~dragState'.isDragging
            /\ ~isAnimating' ]_vars

\* C10: a re-open after a close leaves the state a first open leaves, which
\* depends on the clicked image alone: no navigation in flight, no drag, no
\* pending click toggle, default zoom and pan.
C10_ReopenFresh ==
    [][ (modalDisplay = "none" /\ modalDisplay' = "block") =>
            /\ ~isAnimating'
            /\ ~dragState'.isDragging
            /\ ~canToggleZoomOnClick'
            /\ ~isMouseDown'
            /\ zoomScale' = ZOOM_DEFAULT
            /\ panX' = 0
            /\ panY' = 0 ]_vars

\* C11: the click that follows a mouse gesture in which the pointer was
\* more than 5 px away from the press along an axis does not change the
\* zoom, zoomed in or not, however the travel was split into mouse moves.
C11_DragSuppressesToggle ==
    [][ (GestureClick /\ gesture.far) => zoomScale' = zoomScale ]_vars

\* C12: the click of an un-moved left-button click on the image (press,
\* release, click, no mouse move) toggles the zoom, in either zoom state
\* and wherever the flag-reset timers of earlier releases fire.
C12_ClickToggles ==
    [][ (GestureClick /\ ~gesture.moved) =>
            zoomScale' = IF zoomScale = ZOOM_MIN THEN ZOOM_MAX
                         ELSE ZOOM_MIN ]_vars

\* C13: a changeImage call made while the carousel has at most one image
\* or while an animation is in flight changes nothing: not the index, not
\* isAnimating, not the displayed image and caption, not the slide classes,
\* not the animation listeners.
C13_ChangeImageNoOp ==
    [][ (lastCall'.op = "changeImage"
         /\ (Len(allImages) <= 1 \/ isAnimating)) =>
            UNCHANGED << currentImageIndex, isAnimating, imageSrc,
                         captionText, imageClasses, animListeners >> ]_vars

\* A navigation forward was called, and refused, while the backward
\* slide-out was pending.
C13_Witness ==
    /\ lastCall.op = "changeImage"
    /\ lastCall.dir = 1
    /\ isAnimating
    /\ Len(animListeners) = 1
    /\ animListeners[1].phase = "out"
    /\ animListeners[1].direction = -1

\* C14: right after an openModal call made with the required elements
\* present, whatever the state before it, the overlay is displayed, body
\* scrolling is disabled, the zoom is 1.0 and the pan is (0, 0).
C14_OpenShowsAndResets ==
    [][ (lastCall'.op = "openModal"
         /\ Has("imageModal") /\ Has("modalImage") /\ Has("modalCaption")) =>
            /\ modalDisplay' = "block"
            /\ bodyOverflow' = "hidden"
            /\ zoomScale' = ZOOM_MIN
            /\ panX' = 0
            /\ panY' = 0 ]_vars

\* Opened from a viewer that was zoomed in, with a non-zero pan.
C14_Witness ==
    /\ lastCall.op = "openModal"
    /\ lastCall.zoom = ZOOM_MAX
    /\ lastCall.panX # 0
    /\ lastCall.panY # 0
    /\ modalDisplay = "block"
    /\ bodyOverflow = "hidden"
    /\ zoomScale = ZOOM_MIN
    /\ panX = 0
    /\ panY = 0

\* C15: right after a successful openModal with clicked source s, the
\* current index is the smallest index whose display URL or full-resolution
\* URL equals s, and 0 when there is none.
C15_OpenIndex ==
    [][ (lastCall'.op = "openModal"
         /\ Has("imageModal") /\ Has("modalImage") /\ Has("modalCaption")) =>
            LET s == lastCall'.src
                matches == { j \in 0 .. Len(allImages') - 1 :
                               \/ allImages'[j + 1].src = s
                               \/ allImages'[j + 1].srcOriginal = s }
            IN  /\ matches = {} => currentImageIndex' = 0
                /\ matches # {} =>
                     /\ currentImageIndex' \in matches
                     /\ \A j \in matches : currentImageIndex' <= j ]_vars

\* Opened on the second image, found by its full-resolution URL alone.
C15_Witness ==
    /\ lastCall.op = "openModal"
    /\ lastCall.src = "/base/c_full.jpg"
    /\ Len(allImages) >= 2
    /\ allImages[2].srcOriginal = "/base/c_full.jpg"
    /\ allImages[2].src # "/base/c_full.jpg"
    /\ currentImageIndex = 1

\* C16: a successful open builds the carousel as the primary image followed
\* by the additional photos in their order, each URL prefixed with the base
\* URL and each full-resolution URL falling back to the display URL; no
\* other step changes the carousel.
C16_SequenceBuiltByOpen ==
    [][ IF lastCall'.op = "openModal"
           /\ Has("imageModal") /\ Has("modalImage") /\ Has("modalCaption")
        THEN LET photos == << imageData >> \o imageData.additionalPhotos
             IN  /\ Len(allImages') = 1 + Len(imageData.additionalPhotos)
                 /\ \A i \in 1 .. Len(allImages') :
                      /\ allImages'[i].src = BaseUrl \o photos[i].src
                      /\ allImages'[i].srcOriginal =
                           IF photos[i].srcOriginal # ""
                           THEN BaseUrl \o photos[i].srcOriginal
                           ELSE BaseUrl \o photos[i].src
        ELSE allImages' = allImages ]_vars

\* A carousel of three (the third without a full-resolution URL of its
\* own), navigated to its last image, zoomed in, then closed.
C16_Witness ==
    /\ Len(allImages) = 3
    /\ allImages[2].srcOriginal = "/base/c_full.jpg"
    /\ allImages[3].srcOriginal = "/base/b.jpg"
    /\ currentImageIndex = 2
    /\ zoomScale = ZOOM_MAX
    /\ lastCall.op = "closeModal"

\* C17: an openModal call made while the modal, the modal image or the
\* caption element is missing changes nothing: not the index, the carousel,
\* the zoom, the pan, the overlay, the body scroll or the preload cache.
C17_OpenWithoutAnchors ==
    [][ (lastCall'.op = "openModal"
         /\ ~(Has("imageModal") /\ Has("modalImage") /\ Has("modalCaption")))
        => UNCHANGED << currentImageIndex, allImages, zoomScale, panX, panY,
                        modalDisplay, bodyOverflow, imagePreloadCache >> ]_vars

\* An open was called on a page without the caption element.
C17_Witness ==
    /\ lastCall.op = "openModal"
    /\ ~Has("modalCaption")
    /\ Has("imageModal")
    /\ Has("modalImage")
    /\ allImages = << >>
    /\ modalDisplay = ""

\* C18: closeModal (the overlay element exists) hides the overlay, restores
\* body scrolling and leaves the carousel and the current index unchanged.
C18_CloseHides ==
    [][ (lastCall'.op = "closeModal" /\ Has("imageModal")) =>
            /\ modalDisplay' = "none"
            /\ bodyOverflow' = "auto"
            /\ UNCHANGED << allImages, currentImageIndex >> ]_vars

\* Closed on the second image of a carousel.
C18_Witness ==
    /\ lastCall.op = "closeModal"
    /\ modalDisplay = "none"
    /\ bodyOverflow = "auto"
    /\ Len(allImages) >= 2
    /\ currentImageIndex = 1

\* C19: toggleZoom takes a zoom of at most 1.0 to 2.5 and any zoom above
\* 1.0 to 1.0, and leaves the pan at (0, 0) whatever it was; a second
\* toggle right after a first returns to the zoom level (1.0 or 2.5) the
\* first one found.
C19_ToggleZoom ==
    [][ lastCall'.op = "toggleZoom" =>
            /\ zoomScale' = IF zoomScale <= 10 THEN 25 ELSE 10
            /\ panX' = 0
            /\ panY' = 0
            /\ (lastCall.op = "toggleZoom" /\ lastCall.zoom \in { 10, 25 })
                 => zoomScale' = lastCall.zoom ]_vars

\* A zoom of 1.5 with a non-zero pan was toggled to 1.0 and pan (0, 0).
C19_Witness ==
    /\ lastCall.op = "toggleZoom"
    /\ lastCall.zoom = 15
    /\ lastCall.panX # 0
    /\ lastCall.panY # 0
    /\ zoomScale = ZOOM_MIN
    /\ panX = 0
    /\ panY = 0
    /\ transform = [ zoom |-> ZOOM_MIN, panX |-> 0, panY |-> 0 ]

\* C20: once the viewer has been opened, the zoom-dependent interface
\* agrees with the zoom: the modal carries "modal--zoomed" exactly when the
\* zoom is above 1.0, and the caption is hidden exactly when it is.
C20_ZoomUiAgrees ==
    allImages # << >> =>
        /\ modalZoomed <=> zoomScale > ZOOM_MIN
        /\ (captionDisplay = "none") <=> zoomScale > ZOOM_MIN

\* Zoomed in and then closed: the flag is set and the caption hidden in a
\* closed viewer.
C20_Witness ==
    /\ allImages # << >>
    /\ zoomScale > ZOOM_MIN
    /\ modalZoomed
    /\ captionDisplay = "none"
    /\ modalDisplay = "none"

\* C26: during a drag begun while zoomed in at pointer position p0 with pan
\* pan0, each mouse move to p leaves the pan at p - (p0 - pan0) clamped to
\* the current pan bounds on each axis (0 without bounds), with the same
\* reference p0 - pan0 for the whole drag; the press does not change the
\* pan.
C26_DragFollowsPointer ==
    [][ /\ GesturePress => (panX' = panX /\ panY' = panY)
        /\ (GestureMove /\ gesture.zoom0 > ZOOM_MIN) =>
             \E rect \in BoundingRects(zoomScale) :
                 LET b == calculatePanBounds(Has("modalImage"), zoomScale,
                                             viewport, NaturalDims, rect)
                     toX == Px(gesture'.x) - (Px(gesture.downX) - gesture.panX0)
                     toY == Px(gesture'.y) - (Px(gesture.downY) - gesture.panY0)
                 IN  IF b.null THEN panX' = 0 /\ panY' = 0
                     ELSE /\ panX' = Max(-b.maxX, Min(b.maxX, toX))
                          /\ panY' = Max(-b.maxY, Min(b.maxY, toY)) ]_vars

\* A drag that began from a non-zero pan and has followed the pointer, not
\* clamped, over a distance other than zero.
C26_Witness ==
    /\ gesture.phase = "down"
    /\ gesture.zoom0 > ZOOM_MIN
    /\ gesture.panX0 # 0
    /\ gesture.x # gesture.downX
    /\ dragState.isDragging
    /\ panX = gesture.panX0 + Px(gesture.x - gesture.downX)

\* C27: a wheel event while zoomed in adds 1.5 times its deltas to the pan
\* and clamps the result to the pan bounds (0 without bounds); a wheel
\* event while not zoomed in changes nothing of the viewer.
C27_WheelPans ==
    [][ lastCall'.op = "wheel" =>
            IF zoomScale > ZOOM_MIN
            THEN \E rect \in BoundingRects(zoomScale) :
                     LET b == calculatePanBounds(Has("modalImage"), zoomScale,
                                                 viewport, NaturalDims, rect)
                         toX == panX + (Px(lastCall'.x) * 15) \div 10
                         toY == panY + (Px(lastCall'.y) * 15) \div 10
                     IN  IF b.null THEN panX' = 0 /\ panY' = 0
                         ELSE /\ panX' = Max(-b.maxX, Min(b.maxX, toX))
                              /\ panY' = Max(-b.maxY, Min(b.maxY, toY))
            ELSE UNCHANGED progVars ]_vars

\* A wheel event of (4, 2) px moved the pan by (6, 3) px, inside the
\* bounds.
C27_Witness ==
    /\ lastCall.op = "wheel"
    /\ lastCall.zoom > ZOOM_MIN
    /\ lastCall.x = 4
    /\ lastCall.y = 2
    /\ panX = lastCall.panX + Px(6)
    /\ panY = lastCall.panY + Px(3)
    /\ transform.panX = panX

\* C25: the viewer is never zoomed in with unusable image bounds: when the
\* bounds are missing or malformed the zoom is back at its default 1.0.
C25_ZoomCollapses ==
    zoomScale > ZOOM_MIN =>
        \A rect \in BoundingRects(zoomScale) :
            ~calculatePanBounds(Has("modalImage"), zoomScale, viewport,
                                NaturalDims, rect).null

\* C21: for every displayed box, zoom factor and viewport, the pan bound on
\* each axis is max(0, displayed dimension * zoom - viewport dimension) / 2:
\* never negative, and 0 on an axis without overflow.  (Lengths in quarter
\* pixels and zoom in tenths: 20 * bound = max(0, d * zoom - 10 * v).)
C21_BoundsFormula ==
    \A box \in PanBoxes, zoom \in ZoomInputs \cup { zoomScale } :
        LET b == calculateBoundsFromSize(Px(box.w), Px(box.h), Px(viewport.w),
                                         Px(viewport.h), zoom)
            overX == Px(box.w) * zoom - 10 * Px(viewport.w)
            overY == Px(box.h) * zoom - 10 * Px(viewport.h)
        IN  /\ ~b.null
            /\ 20 * b.maxX = (IF overX > 0 THEN overX ELSE 0)
            /\ 20 * b.maxY = (IF overY > 0 THEN overY ELSE 0)
            /\ b.maxX >= 0
            /\ b.maxY >= 0
            /\ overX <= 0 => b.maxX = 0
            /\ overY <= 0 => b.maxY = 0

\* The tall image at desktop width (displayed 360 x 720, zoomed 900 x 1800
\* in 1024 x 800): wheeled to the vertical bound 500, horizontally held at
\* 0 where nothing overflows.
C21_Witness ==
    /\ viewport = [ w |-> 1024, h |-> 800 ]
    /\ imageLoaded
    /\ NaturalDims = [ w |-> 20, h |-> 40 ]
    /\ zoomScale = ZOOM_MAX
    /\ lastCall.op = "wheel"
    /\ panY = Px(500)
    /\ panX = 0

\* C22: with intrinsic dimensions available the displayed box is the
\* aspect-preserving containment of the image in viewport width x maximal
\* height, the maximal height being the viewport height below 768 px of
\* width, 80% of it from 768 to 1023 and 90% from 1024: neither dimension
\* exceeds its limit and one of them equals it.
C22_DisplayedBoxContained ==
    \A natural \in PanNaturals :
        LET box == DisplayedBox(natural, viewport)
            maxHeight == IF viewport.w < 768 THEN Px(viewport.h)
                         ELSE IF viewport.w <= 1023
                              THEN (Px(viewport.h) * 80) \div 100
                              ELSE (Px(viewport.h) * 90) \div 100
        IN  /\ box.w <= Px(viewport.w)
            /\ box.h <= maxHeight
            /\ box.w = Px(viewport.w) \/ box.h = maxHeight
            /\ box.w * natural.h = box.h * natural.w

\* The tall image at the first tablet width (displayed 320 x 640 under the
\* 80% rule, zoomed 800 x 1600 in 768 x 800): dragged to the vertical bound
\* 400.
C22_Witness ==
    /\ viewport = [ w |-> 768, h |-> 800 ]
    /\ imageLoaded
    /\ NaturalDims = [ w |-> 20, h |-> 40 ]
    /\ zoomScale = ZOOM_MAX
    /\ lastCall.op = "mousemove"
    /\ dragState.isDragging
    /\ panY = Px(400)

\* C23 (as stated): for the 2000 x 1000 image zoomed in in the 1000 x 800
\* viewport the displayed width fills the viewport width with proportional
\* height and the horizontal pan bound is 2250.
C23_Bound2250 ==
    ( /\ viewport = [ w |-> 1000, h |-> 800 ]
      /\ imageLoaded
      /\ NaturalDims = [ w |-> 2000, h |-> 1000 ]
      /\ zoomScale = ZOOM_MAX ) =>
        LET box == DisplayedBox(NaturalDims, viewport)
            b == calculatePanBounds(Has("modalImage"), zoomScale, viewport,
                                    NaturalDims, BoundingRect(box, zoomScale))
        IN  /\ box.w = Px(1000)
            /\ box.w * 1000 = box.h * 2000
            /\ ~b.null
            /\ b.maxX = Px(2250)

\* C23 (amended): for the 2000 x 1000 image, loaded and zoomed in in the
\* 1000 x 800 viewport, the displayed box is 1000 x 500 (the width fills the
\* viewport, the height is proportional) and the horizontal pan bound is
\* (1000 * 2.5 - 1000) / 2 = 750: a drag whose target is at or beyond 750
\* leaves the pan at 750, and no zoom toggle, drag or wheel step leaves the
\* horizontal pan beyond 750.
C23_Bound750 ==
    [][ ( /\ viewport = [ w |-> 1000, h |-> 800 ]
          /\ imageLoaded
          /\ NaturalDims = [ w |-> 2000, h |-> 1000 ]
          /\ zoomScale' = ZOOM_MAX
          /\ lastCall'.op \in { "toggleZoom", "mousemove", "wheel" } ) =>
            LET box == DisplayedBox(NaturalDims, viewport)
                b == calculatePanBounds(Has("modalImage"), zoomScale',
                                        viewport, NaturalDims,
                                        BoundingRect(box, zoomScale'))
            IN  /\ box = [ w |-> Px(1000), h |-> Px(500) ]
                /\ ~b.null
                /\ b.maxX = Px(750)
                /\ panX' <= Px(750)
                /\ panX' >= -Px(750)
                /\ ( /\ lastCall'.op = "mousemove"
                     /\ dragState.isDragging
                     /\ Px(lastCall'.x) - dragState.startX >= Px(750) )
                   => panX' = Px(750) ]_vars

\* The pointer dragged to x = 2250 on that image: the pan stops at 750.
C23_Witness ==
    /\ viewport = [ w |-> 1000, h |-> 800 ]
    /\ imageLoaded
    /\ NaturalDims = [ w |-> 2000, h |-> 1000 ]
    /\ zoomScale = ZOOM_MAX
    /\ dragState.isDragging
    /\ lastCall.op = "mousemove"
    /\ lastCall.x = 2250
    /\ panX = Px(750)

\* C24: zoomed in, without intrinsic dimensions and with a rendered bounding
\* box that is zero or negative in a dimension, a drag, a wheel event and a
\* zoom toggle each leave the pan at (0,0), whatever the pan and the pointer
\* position or wheel deltas were.
C24_NoBoundsPanZero ==
    \A rect \in UnusableRects :
        \A x \in PanInputs \cup { panX }, y \in PanInputs \cup { panY } :
            LET none == [ w |-> 0, h |-> 0 ]
                drag == [ dragState EXCEPT !.isDragging = TRUE ]
            IN  /\ \A p \in PanPoints :
                     LET d == onDrag(TRUE, drag, ZOOM_MAX, viewport, none,
                                     rect, x, y, Px(p.x), Px(p.y))
                     IN  d.x = 0 /\ d.y = 0
                /\ \A delta \in PanWheelDeltas \cup ViewWheelDeltas :
                     handleWheel(TRUE, ZOOM_MAX, viewport, none, rect, x, y,
                                 Px(delta.x), Px(delta.y))
                       = [ x |-> 0, y |-> 0 ]
                /\ toggleZoom(TRUE, ZOOM_MIN, viewport, none, rect, x, y)
                     = [ zoom |-> ZOOM_MAX, x |-> 0, y |-> 0 ]

\* The image zoomed in before it has loaded and dragged to x = 750: the pan
\* is (0,0).
C24_Witness ==
    /\ ~imageLoaded
    /\ zoomScale > ZOOM_MIN
    /\ dragState.isDragging
    /\ dragState.hasMoved
    /\ lastCall.op = "mousemove"
    /\ lastCall.x = 750
    /\ panX = 0
    /\ panY = 0

\* C28: a touch end toggles the zoom only if the finger never was more than
\* 3 px from its start on either axis and the touch lasted less than 300 ms;
\* after a touch that moved beyond 3 px, or lasted 300 ms or longer, the
\* touch end leaves the zoom as it was.
C28_TapTogglesOnly ==
    [][ lastCall'.op = "touchend" =>
          /\ zoomScale' # zoomScale => (~gesture.far /\ lastCall'.t < 300)
          /\ (gesture.far \/ lastCall'.t >= 300) => zoomScale' = zoomScale
      ]_vars

\* A finger lifted after exactly 300 ms without moving, on the image not
\* zoomed in: no swipe, no drag, and the zoom is still 1.0.
C28_Witness ==
    /\ lastCall.op = "touchend"
    /\ lastCall.t = 300
    /\ Px(lastCall.x) = touchStartX
    /\ Px(lastCall.y) = touchStartY
    /\ lastCall.zoom = ZOOM_MIN
    /\ zoomScale = ZOOM_MIN
    /\ ~isAnimating

\* C29 (as stated): not zoomed in, with two images or more and no slide
\* running, the end of a touch starts a navigation if and only if |dx| is
\* more than 50 px, |dx| is more than |dy| and the touch lasted less than
\* 500 ms.
C29_SwipeStrict ==
    [][ ( /\ lastCall'.op = "touchend"
          /\ zoomScale = ZOOM_MIN
          /\ Len(allImages) >= 2
          /\ ~isAnimating ) =>
            LET dx == gesture.x - gesture.downX
                dy == gesture.y - gesture.downY
            IN  isAnimating' <=>
                  (Abs(dx) > 50 /\ Abs(dx) > Abs(dy) /\ lastCall'.t < 500)
      ]_vars

\* C29 (amended): not zoomed in, with two images or more and no slide
\* running, the end of a touch starts a navigation if and only if |dx| is at
\* least 50 px, |dx| is more than |dy| and the touch lasted at most 500 ms;
\* so dx = 80, dy = 10, t = 200 is a swipe and dx = 40 is not.  A swipe
\* does not toggle the zoom.
C29_SwipeInclusive ==
    [][ ( /\ lastCall'.op = "touchend"
          /\ zoomScale = ZOOM_MIN
          /\ Len(allImages) >= 2
          /\ ~isAnimating ) =>
            LET dx == gesture.x - gesture.downX
                dy == gesture.y - gesture.downY
            IN  /\ isAnimating' <=>
                     (Abs(dx) >= 50 /\ Abs(dx) > Abs(dy) /\ lastCall'.t <= 500)
                /\ (Abs(dx) = 80 /\ Abs(dy) = 10 /\ lastCall'.t = 200)
                     => isAnimating'
                /\ Abs(dx) = 40 => ~isAnimating'
                /\ isAnimating' => zoomScale' = zoomScale
      ]_vars

\* A finger lifted 50 px to the right of its start after exactly 500 ms:
\* the slide has started.
C29_Witness ==
    /\ lastCall.op = "touchend"
    /\ touchStartX = 0
    /\ lastCall.x = 50
    /\ lastCall.y = 10
    /\ lastCall.t = 500
    /\ lastCall.zoom = ZOOM_MIN
    /\ isAnimating
    /\ Len(animListeners) = 1

\* C30: the end of a touch issues at most one navigate call, and the one a
\* swipe issues (dx = -80 or 80 with dy of 10 in 200 ms in particular) has
\* direction +1 when the horizontal displacement is negative and -1 when it
\* is positive.
C30_SwipeDirection ==
    [][ lastCall'.op = "touchend" =>
          LET dx == gesture.x - gesture.downX
              dy == gesture.y - gesture.downY
          IN  /\ \/ animListeners' = animListeners
                 \/ /\ Len(animListeners') = Len(animListeners) + 1
                    /\ dx # 0
                    /\ animListeners'[Len(animListeners')].phase = "out"
                    /\ animListeners'[Len(animListeners')].direction =
                         (IF dx < 0 THEN 1 ELSE -1)
                    /\ SubSeq(animListeners', 1, Len(animListeners))
                         = animListeners
              /\ ( /\ zoomScale = ZOOM_MIN
                   /\ Len(allImages) >= 2
                   /\ ~isAnimating
                   /\ Abs(dx) = 80
                   /\ Abs(dy) = 10
                   /\ lastCall'.t = 200 )
                 => Len(animListeners') = Len(animListeners) + 1
      ]_vars

\* A finger lifted 80 px to the left of its start after 200 ms: one slide
\* forward has started.
C30_Witness ==
    /\ lastCall.op = "touchend"
    /\ touchStartX = Px(80)
    /\ lastCall.x = 0
    /\ lastCall.y = 0
    /\ lastCall.t = 200
    /\ isAnimating
    /\ Len(animListeners) = 1
    /\ animListeners[1].direction = 1

\* C31: no touch gesture both issues a navigation and toggles the zoom: the
\* touchstart, touchmove and touchcancel handlers do neither; a touchend
\* that starts a slide leaves the zoom, a touchend that changes the zoom
\* leaves the slide state, and a touchend whose displacement and duration
\* make a swipe (not zoomed in) never changes the zoom.
C31_SwipeXorTap ==
    [][ /\ lastCall'.op \in { "touchstart", "touchmove", "touchcancel" } =>
             /\ zoomScale' = zoomScale
             /\ isAnimating' = isAnimating
             /\ animListeners' = animListeners
        /\ lastCall'.op = "touchend" =>
             LET dx == Px(lastCall'.x) - touchStartX
                 dy == Px(lastCall'.y) - touchStartY
                 swipe == /\ zoomScale = ZOOM_MIN
                          /\ Abs(dx) >= Px(50)
                          /\ Abs(dx) > Abs(dy)
                          /\ lastCall'.t <= 500
             IN  /\ ~(animListeners' # animListeners /\ zoomScale' # zoomScale)
                 /\ animListeners' # animListeners => zoomScale' = zoomScale
                 /\ zoomScale' # zoomScale =>
                      (isAnimating' = isAnimating
                       /\ animListeners' = animListeners)
                 /\ swipe => zoomScale' = zoomScale
      ]_vars

\* A finger lifted 80 px to the right after 200 ms with no touchmove in
\* between (the tap flag still set at the touchend): the slide has started
\* and the zoom is still 1.0.
C31_Witness ==
    /\ lastCall.op = "touchend"
    /\ touchStartX = 0
    /\ touchLastX = 0
    /\ lastCall.x = 80
    /\ lastCall.y = 10
    /\ lastCall.t = 200
    /\ isAnimating
    /\ Len(animListeners) = 1
    /\ lastCall.zoom = ZOOM_MIN
    /\ zoomScale = ZOOM_MIN

\* C32: a key-down changes the viewer only while the overlay is visible:
\* hidden, every key leaves the state as it is; visible, Escape hides the
\* overlay and restores scrolling and nothing else, ArrowLeft and ArrowRight
\* request a navigation by -1 and +1 (a slide-out in that direction starts
\* when there are two images or more and no slide is running, nothing
\* happens otherwise), and any other key does nothing.
C32_KeysWhileVisible ==
    [][ lastCall'.key # "" =>
          IF modalDisplay # "block" THEN UNCHANGED progVars
          ELSE IF lastCall'.key = "Escape"
          THEN /\ modalDisplay' = "none"
               /\ bodyOverflow' = "auto"
               /\ UNCHANGED << currentImageIndex, allImages, isAnimating,
                               zoomScale, panX, panY, imageSrc, captionText,
                               animListeners >>
          ELSE IF lastCall'.key \in { "ArrowLeft", "ArrowRight" }
          THEN LET d == IF lastCall'.key = "ArrowLeft" THEN -1 ELSE 1
               IN  IF Len(allImages) >= 2 /\ ~isAnimating
                      /\ Has("modalImage")
                   THEN /\ isAnimating'
                        /\ Len(animListeners') = Len(animListeners) + 1
                        /\ animListeners'[Len(animListeners')].direction = d
                        /\ UNCHANGED << currentImageIndex, allImages,
                                        modalDisplay, zoomScale, imageSrc >>
                   ELSE UNCHANGED progVars
          ELSE UNCHANGED progVars ]_vars

\* ArrowRight pressed after the viewer was closed on an artwork of two
\* images or more: no slide starts.
C32_Witness ==
    /\ lastCall.key = "ArrowRight"
    /\ modalDisplay = "none"
    /\ bodyOverflow = "auto"
    /\ Len(allImages) >= 2
    /\ ~isAnimating
    /\ animListeners = << >>

\* C33: on every English page of the site, under every base URL the
\* switcher detects there, converting the path to Spanish, loading that
\* page and converting its path back to English yields the path again.
C33_RoundTrip ==
    ( /\ visited = << >>
      /\ \E site \in Sites, path \in EnglishPages :
            page = [ pathname |-> site.prefix \o path,
                     baseTag |-> site.baseTag ] ) =>
        LET p == page.pathname
            es == convertPath(p, p, "es", switcher.baseUrl)
            back == convertPath(es, es, "en", getBaseUrl(page.baseTag, es))
        IN  back = p

\* C34: with the base URL stripped before and re-attached after, an
\* English path is converted to Spanish by mapping / to /es/ and any other
\* path p (an artwork page included) to /es followed by p, and a Spanish
\* path is converted to English by removing its leading /es.
C34_PrefixSwap ==
    \A site \in Sites :
        ( /\ visited = << >>
          /\ page.baseTag = site.baseTag
          /\ startsWith(page.pathname, site.prefix) ) =>
            LET p == page.pathname
                rel == SubSeq(p, Len(site.prefix) + 1, Len(p))
            IN  /\ rel \in EnglishPages =>
                     convertPath(p, p, "es", switcher.baseUrl) =
                        site.prefix \o
                          (IF rel = << "/" >> THEN << "/", "es", "/" >>
                           ELSE << "/", "es" >> \o rel)
                /\ rel \in SpanishPages =>
                     convertPath(p, p, "en", switcher.baseUrl) =
                        site.prefix \o SubSeq(rel, 3, Len(rel))

\* C39: on every page, for both languages L, the path convertPath returns
\* for L is detected as L, and it is the page's own path when the page is
\* detected as L already.
C39_LandsInTarget ==
    \A lang \in LANGUAGES :
        LET p == page.pathname
            to == convertPath(p, p, lang, switcher.baseUrl)
        IN  /\ detectLanguage(to) = lang
            /\ detectLanguage(p) = lang => to = p

\* C35: after a successful open, as long as no navigation has been requested
\* since that open, the current index and the displayed image and caption
\* are those the open chose for the clicked image.
C35_OpenStaysUntilNavigation ==
    (allImages # << >> /\ navDirs = << >>) =>
        /\ currentImageIndex = navStart
        /\ imageSrc = allImages[navStart + 1].srcOriginal
        /\ captionText = allImages[navStart + 1].alt

\* C36: between event handlers, isAnimating is true exactly when one
\* navigation animationend listener is registered on the modal image: never
\* two listeners, and none while isAnimating is false.
C36_LockIffListener ==
    /\ Len(animListeners) <= 1
    /\ isAnimating <=> (Len(animListeners) = 1)

\* A navigation in its slide-in phase in a viewer that is zoomed in: the
\* lock is held and the slide-in listener is the only one registered.
C36_Witness ==
    /\ isAnimating
    /\ Len(animListeners) = 1
    /\ animListeners[1].phase = "in"
    /\ modalDisplay = "block"
    /\ zoomScale = ZOOM_MAX

\* C37: in every reachable state a drag is marked in progress only while
\* the viewer is zoomed in.
C37_DragOnlyZoomed == dragState.isDragging => zoomScale > ZOOM_MIN

\* C38: while the viewer is zoomed in, a single-finger touch gesture
\* neither navigates nor toggles the zoom, whatever the displacement and the
\* duration of its end: the touchstart marks a drag in progress, and the
\* touchend ends that drag and leaves the zoom, the pan, the current image
\* and the slide state as they are.
C38_ZoomedTouchOnlyDrags ==
    [][ /\ (lastCall'.op = "touchstart" /\ zoomScale > ZOOM_MIN) =>
             /\ dragState'.isDragging
             /\ zoomScale' = zoomScale
             /\ isAnimating' = isAnimating
             /\ animListeners' = animListeners
        /\ (lastCall'.op = "touchend" /\ zoomScale > ZOOM_MIN) =>
             /\ dragState.isDragging
             /\ ~dragState'.isDragging
             /\ zoomScale' = zoomScale
             /\ panX' = panX
             /\ panY' = panY
             /\ currentImageIndex' = currentImageIndex
             /\ imageSrc' = imageSrc
             /\ isAnimating' = isAnimating
             /\ animListeners' = animListeners
      ]_vars

\* Zoomed in on a carousel of two images, a finger lifted 80 px to the right
\* of its touchstart after 200 ms (a swipe, were the viewer not zoomed in):
\* no slide has started, the zoom is still 2.5 and the drag is over.
C38_Witness ==
    /\ lastCall.op = "touchend"
    /\ lastCall.x = 80
    /\ lastCall.t = 200
    /\ touchStartX = 0
    /\ Len(allImages) = 2
    /\ zoomScale = ZOOM_MAX
    /\ modalZoomed
    /\ ~dragState.isDragging
    /\ ~isAnimating
    /\ animListeners = << >>

====
